---- MODULE Spec2Model ----
(***************************************************************************)
(* FilesDSL: the tree-walking evaluator (interpreter.py), the runtime      *)
(* objects Directory and File (runtime.py), the prepared page index        *)
(* (semantic.py) and the embedding API execute_fdsl, as state machines.    *)
(*                                                                         *)
(* Paths are sequences of component names from the filesystem root; a      *)
(* Python str held by a script is a TLA+ string; the text of a document    *)
(* is a sequence of characters (one-character strings, with SOH standing   *)
(* for U+0001 and NBSP for U+00A0).                                        *)
(***************************************************************************)
EXTENDS Integers, Sequences, FiniteSets, TLC

VARIABLES
    \* ---- the filesystem
    fs,            \* file path -> [here, units]: the live documents
    db,            \* directory path -> [dir, has_records, records]: .fdsl_faiss
    \* ---- one Interpreter (interpreter.py:30-47)
    cwd,           \* Interpreter.cwd
    sandbox_root,  \* Interpreter.sandbox_root
    proc_cwd,      \* Path.cwd() of the host process
    variables,     \* Interpreter.variables
    out,           \* what the run has written to its stdout
    status,        \* "running" | "error": a DSLRuntimeError ended the run
    err,           \* the message of that error
    last,          \* the statement executed last, and the variables before it
    nstmts,        \* number of top-level statements executed
    \* ---- calls on DSLFile and DSLDirectory objects made by a host program
    call,          \* the last call and its result
    before,        \* the results the calls gave when prepare was first called
    \* ---- threads of a host program, each in execute_fdsl
    sys_stdout,    \* sys.stdout of the process: "console" or the sink of a thread
    threads,       \* thread -> [pc, old, printed, sink, returned]
    console,       \* what was written to the stdout of the process
    \* ---- one execute_fdsl call of a host program that wants a deadline
    run,           \* [timeout, pc, i, now, outcome]
    \* ---- a host that makes an ExecutionBudget and polls it
    clock,         \* time.monotonic(), in ticks
    budget,        \* the ExecutionBudget: [made, timeout, start, deadline]
    probe,         \* the last call made with the budget, and how it ended
    \* ---- the caller of execute_fdsl
    caller,        \* what the call gave it: the output, or the failure
    \* ---- processes that prepare the index of Box and search in it
    vectors,       \* directory path -> the vectors.json of its .fdsl_faiss
    procs,         \* process -> [seed, pc, records, vectors]
    hits,          \* the last semantic search and what it returned
    \* ---- a host that calls the methods of a DSLDirectory
    dcall,         \* the last call and its result
    locked,        \* the directories that the process may not list
    \* ---- a source text given to Interpreter(source).run()
    source,        \* [script, done, r]: the lines, and how the run ended
    \* ---- threads that load records.json and vectors.json through the caches
    disk,          \* file name -> [content, mtime]: the file of the index folder
    lru,           \* file name -> the entries of its lru_cache, oldest first
    readers,       \* thread -> [pc, file, key, loaded, returned]
    had,           \* every (file, key, content) a file has had
    \* ---- a script that lists a directory and reads its files
    lookup,        \* the last lookup, and the index folder it read
    \* ---- a host that keeps one DSLFile and calls its methods
    dslfile,       \* the DSLFile: [path, _chunks_cache, _chunks_loaded_from_db]
    fcall,         \* the last call of a method of it, and what it gave
    \* ---- one for statement over a list, executed step by step
    heap,          \* the list objects: identity -> items
    env,           \* Interpreter.variables: xs a list object, x a value
    floop,         \* the for statement: [pc, body, iter, entry, bound, printed]
    \* ---- one statement line given to Parser._parse_statement
    oneline,       \* [text, done, r]: the characters, and what the parser made of them
    \* ---- a script that is parsed, then executed
    prog           \* [script, pc, program, at, executed, printed, variables]

worldVars == <<fs, db>>
interpVars == <<cwd, sandbox_root, proc_cwd, variables, out, status, err, last, nstmts>>
indexVars == <<call, before>>
threadVars == <<sys_stdout, threads, console>>
budgetVars == <<run>>
clockVars == <<clock, budget, probe>>
captureVars == <<caller>>
vectorVars == <<vectors, procs, hits>>
dirVars == <<dcall, locked>>
parseVars == <<source>>
cacheVars == <<disk, lru, readers, had>>
lookupVars == <<lookup>>
fileVars == <<dslfile, fcall>>
loopVars == <<heap, env, floop>>
lineVars == <<oneline, prog>>
moreVars == <<cacheVars, lookupVars, fileVars, loopVars, lineVars>>
restVars == <<vectorVars, dirVars, parseVars, moreVars>>
laterVars == <<clockVars, captureVars, restVars>>

-----------------------------------------------------------------------------
(* Bounds of the model *)

MaxStmts == 2
MaxInt == 2
MaxItems == 3
NThreads == 2
NLines == 2
MaxIter == 8
MaxClock == 5

-----------------------------------------------------------------------------
(* Sequences *)

Last(s) == s[Len(s)]
Front(s) == SubSeq(s, 1, Len(s) - 1)
IsPrefix(p, s) == Len(p) <= Len(s) /\ SubSeq(s, 1, Len(p)) = p
Range(s) == {s[i] : i \in DOMAIN s}
Contains(s, x) == \E i \in DOMAIN s : s[i] = x
\* the element of a singleton: The({e(v) : v \in {x}}) is e with v bound to x
The(S) == CHOOSE v \in S : TRUE

\* str.join: the strings of a sequence with sep between them
RECURSIVE Join(_, _)
Join(sep, strs) ==
    IF strs = <<>> THEN ""
    ELSE IF Len(strs) = 1 THEN strs[1]
    ELSE strs[1] \o sep \o Join(sep, Tail(strs))

-----------------------------------------------------------------------------
(* Runtime values: what a Python name of the interpreter can hold.  Every  *)
(* value is a record of one shape: k the type, i an integer payload, d the *)
(* denominator of a float, s a string payload, e a sequence payload.       *)

Val(k, i, d, s, e) == [k |-> k, i |-> i, d |-> d, s |-> s, e |-> e]
IntV(n) == Val("int", n, 1, "", <<>>)
BoolV(b) == Val("bool", IF b THEN 1 ELSE 0, 1, "", <<>>)
\* a str: s the string, e its characters (a literal is one piece)
StrV(s) == Val("str", 0, 1, s, <<s>>)
ListV(elems) == Val("list", 0, 1, "", elems)
NoneV == Val("none", 0, 1, "", <<>>)
FloatV(n, d) == Val("float", n, d, "", <<>>)
BuiltinV(name) == Val("builtin", 0, 1, name, <<>>)
\* a DSLDirectory: path and recursive (runtime.py:473-474)
DirV(path, recursive) == Val("dir", IF recursive THEN 1 ELSE 0, 1, "", path)
\* a DSLFile: path (runtime.py:35)
FileV(path) == Val("file", 0, 1, "", path)
\* a bound method obj.name
MethodV(obj, name) == Val("method", 0, 1, name, <<obj>>)
\* a pathlib.Path of the host
PathV(path) == Val("path", 0, 1, "", path)
Unbound == Val("unbound", 0, 1, "", <<>>)

-----------------------------------------------------------------------------
(* Paths (pathlib) *)

\* Path(path) of a string of a script: is it absolute, and its components
ParsePath(s) ==
    CASE s = "." -> [abs |-> FALSE, parts |-> <<>>]
      [] s = ".." -> [abs |-> FALSE, parts |-> <<"..">>]
      [] s = "sub" -> [abs |-> FALSE, parts |-> <<"sub">>]
      [] s = "empty" -> [abs |-> FALSE, parts |-> <<"empty">>]
      [] s = "link" -> [abs |-> FALSE, parts |-> <<"link">>]
      [] s = "a.txt" -> [abs |-> FALSE, parts |-> <<"a.txt">>]
      [] s = "nosuch" -> [abs |-> FALSE, parts |-> <<"nosuch">>]
      [] s = "../etc" -> [abs |-> FALSE, parts |-> <<"..", "etc">>]
      [] s = "/" -> [abs |-> TRUE, parts |-> <<>>]
      [] s = "/etc" -> [abs |-> TRUE, parts |-> <<"etc">>]
      [] s = "/box" -> [abs |-> TRUE, parts |-> <<"box">>]
      [] s = "/etc/passwd" -> [abs |-> TRUE, parts |-> <<"etc", "passwd">>]
      [] OTHER -> [abs |-> FALSE, parts |-> <<s>>]

PathStrings ==
    {".", "..", "sub", "empty", "link", "a.txt", "nosuch", "../etc", "/", "/etc",
     "/box", "/etc/passwd"}

\* the directories of the filesystem, and its symbolic link to a directory
Root == <<>>
Box == <<"box">>
Sub == <<"box", "sub">>
Empty == <<"box", "empty">>
Etc == <<"etc">>
Dirs == {Root, Box, Sub, Empty, Etc}
Link == <<"box", "link">>

\* the places where a document can be; the one at p.txt is a symbolic link
\* to the document /etc/passwd
FileA == <<"box", "a.txt">>
FileL == <<"box", "p.txt">>
FileN == <<"box", "sub", "n.pdf">>
FileP == <<"etc", "passwd">>
FilePaths == {FileA, FileL, FileN, FileP}
SymlinkTarget(p) == IF p = Link THEN Etc ELSE IF p = FileL THEN FileP ELSE p

\* Path.suffix.lower()
Suffix(path) ==
    IF path = <<>> THEN ""
    ELSE CASE Last(path) \in {"a.txt", "p.txt"} -> ".txt"
           [] Last(path) = "n.pdf" -> ".pdf"
           [] OTHER -> ""

\* Path.resolve(): ".." steps up, a symbolic link is followed
RECURSIVE ResolveFrom(_, _)
ResolveFrom(acc, rest) ==
    IF rest = <<>> THEN acc
    ELSE IF Head(rest) = ".."
         THEN ResolveFrom(IF acc = <<>> THEN <<>> ELSE Front(acc), Tail(rest))
         ELSE ResolveFrom(SymlinkTarget(Append(acc, Head(rest))), Tail(rest))
Resolve(path) == ResolveFrom(<<>>, path)

\* Path.is_relative_to(root)
IsRelativeTo(path, root) == IsPrefix(root, path)

\* Path.as_posix() of an absolute path
AsPosix(path) == "/" \o Join("/", path)

\* Path.exists(), Path.is_dir(), Path.is_file()
IsDir(path) == path \in Dirs
IsFile(path) == path \in FilePaths /\ fs[path].here
Exists(path) == IsDir(path) \/ IsFile(path)

\* the longest common prefix of two paths
RECURSIVE CommonLen(_, _)
CommonLen(p, q) ==
    IF p = <<>> \/ q = <<>> \/ Head(p) # Head(q) THEN 0
    ELSE 1 + CommonLen(Tail(p), Tail(q))

RECURSIVE Ups(_)
Ups(n) == IF n = 0 THEN <<>> ELSE <<"..">> \o Ups(n - 1)

\* os.path.relpath(p, b) of two resolved paths, as a posix string
relpath(p, b) ==
    The({IF rel = <<>> THEN "." ELSE Join("/", rel) :
            rel \in {Ups(Len(b) - c) \o SubSeq(p, c + 1, Len(p)) : c \in {CommonLen(p, b)}}})

\* _render_relative_path(path, cwd)
_render_relative_path(path, base) == relpath(Resolve(path), Resolve(base))

-----------------------------------------------------------------------------
(* Text (str) as a sequence of characters *)

Chars == {"a", "b", " ", "\n", "SOH", "NBSP"}
\* str.isspace(): what str.strip() removes
IsSpace(c) == c \in {" ", "\n", "NBSP"}

RECURSIVE LStrip(_)
LStrip(t) == IF t # <<>> /\ IsSpace(Head(t)) THEN LStrip(Tail(t)) ELSE t
RECURSIVE RStrip(_)
RStrip(t) == IF t # <<>> /\ IsSpace(Last(t)) THEN RStrip(Front(t)) ELSE t
Strip(t) == RStrip(LStrip(t))

\* str.splitlines()
RECURSIVE SplitLinesFrom(_, _)
SplitLinesFrom(acc, t) ==
    IF t = <<>> THEN (IF acc = <<>> THEN <<>> ELSE <<acc>>)
    ELSE IF Head(t) = "\n" THEN <<acc>> \o SplitLinesFrom(<<>>, Tail(t))
    ELSE SplitLinesFrom(Append(acc, Head(t)), Tail(t))
SplitLines(t) == SplitLinesFrom(<<>>, t)

\* "\n".join(lines) and "\n\n".join(chunks) on texts
RECURSIVE JoinText(_, _)
JoinText(sep, texts) ==
    IF texts = <<>> THEN <<>>
    ELSE IF Len(texts) = 1 THEN texts[1]
    ELSE texts[1] \o sep \o JoinText(sep, Tail(texts))

\* the Python str of a text
RECURSIVE StrOf(_)
StrOf(t) == IF t = <<>> THEN "" ELSE Head(t) \o StrOf(Tail(t))

\* normalize_text: NFKC turns U+00A0 into a space, other whitespace than
\* newline and tab becomes a space, control characters are dropped
RECURSIVE normalize_text(_)
normalize_text(t) ==
    IF t = <<>> THEN <<>>
    ELSE LET c == IF Head(t) = "NBSP" THEN " " ELSE Head(t)
         IN  IF c = "\n" THEN <<c>> \o normalize_text(Tail(t))
             ELSE IF IsSpace(c) THEN <<" ">> \o normalize_text(Tail(t))
             ELSE IF c = "SOH" THEN normalize_text(Tail(t))
             ELSE <<c>> \o normalize_text(Tail(t))

-----------------------------------------------------------------------------
(* Documents on disk.  fs[p].units is what the extraction library reads    *)
(* from the file at p: the whole text of a text file (one unit), the text  *)
(* of each page of a PDF.                                                  *)

TEXT_CHUNK_LINES == 80

NoFile == [here |-> FALSE, units |-> <<>>]
Doc(units) == [here |-> TRUE, units |-> units]

\* sorted(..., key=lambda p: p.as_posix()) over the places of documents
AllFilesSorted == <<FileA, FileL, FileN, FileP>>
RECURSIVE SortedFrom(_, _)
SortedFrom(order, S) ==
    IF order = <<>> THEN <<>>
    ELSE (IF Head(order) \in S THEN <<Head(order)>> ELSE <<>>) \o SortedFrom(Tail(order), S)
SortedPaths(S) == SortedFrom(AllFilesSorted, S)

\* the blocks of lines_per_chunk lines, each joined by "\n" and stripped
RECURSIVE ChunkLines(_, _)
ChunkLines(lines, n) ==
    IF lines = <<>> THEN <<>>
    ELSE LET k == IF Len(lines) < n THEN Len(lines) ELSE n
         IN  <<Strip(JoinText(<<"\n">>, SubSeq(lines, 1, k)))>>
             \o ChunkLines(SubSeq(lines, k + 1, Len(lines)), n)

\* a result of an extraction: the pages, or the failure
Pages(chunks) == [ok |-> TRUE, chunks |-> chunks, err |-> ""]
PagesError(msg) == [ok |-> FALSE, chunks |-> <<>>, err |-> msg]

\* DSLFile._read_text_chunks
File_read_text_chunks(path) ==
    IF ~IsFile(path) THEN PagesError("No such file or directory")
    ELSE The({IF text = <<>> THEN Pages(<<<<>>>>)
              ELSE The({IF lines = <<>> THEN Pages(<<text>>)
                        ELSE The({Pages(IF chunks = <<>> THEN <<text>> ELSE chunks) :
                                    chunks \in {ChunkLines(lines, TEXT_CHUNK_LINES)}}) :
                          lines \in {SplitLines(text)}}) :
                text \in {fs[path].units[1]}})

RECURSIVE StripAll(_)
StripAll(units) == IF units = <<>> THEN <<>> ELSE <<Strip(Head(units))>> \o StripAll(Tail(units))

\* DSLFile._read_pdf_pages
File_read_pdf_pages(path) ==
    IF ~IsFile(path) THEN PagesError("Failed to read PDF")
    ELSE The({Pages(IF pages = <<>> THEN <<<<>>>> ELSE pages) :
                pages \in {StripAll(fs[path].units)}})

\* semantic._read_text_chunks
_read_text_chunks(path) ==
    The({IF text = <<>> THEN <<<<>>>>
         ELSE The({IF chunks = <<>> THEN <<text>> ELSE chunks :
                     chunks \in {ChunkLines(SplitLines(text), TEXT_CHUNK_LINES)}}) :
           text \in {fs[path].units[1]}})

\* semantic._ocr_pdf_page: pytesseract is not installed
_ocr_pdf_page(unit) == <<>>

RECURSIVE PdfPageTexts(_)
PdfPageTexts(units) ==
    IF units = <<>> THEN <<>>
    ELSE The({<<IF text # <<>> THEN text ELSE _ocr_pdf_page(Head(units))>> :
                text \in {Strip(Head(units))}})
         \o PdfPageTexts(Tail(units))

\* semantic._read_pdf_pages
_read_pdf_pages(path) ==
    The({IF pages = <<>> THEN <<<<>>>> ELSE pages : pages \in {PdfPageTexts(fs[path].units)}})

\* semantic._extract_pages
_extract_pages(path) ==
    IF Suffix(path) = ".pdf" THEN _read_pdf_pages(path) ELSE _read_text_chunks(path)

-----------------------------------------------------------------------------
(* The prepared index: db[d] is the folder d/.fdsl_faiss                   *)

NoDb == [dir |-> FALSE, has_records |-> FALSE, records |-> <<>>]

Record(rel, name, page, text) ==
    [relative_path |-> rel, file_name |-> name, page |-> page, text |-> text]

\* semantic._iter_document_paths: the files under folder, sorted
_iter_document_paths(folder) ==
    SortedPaths({p \in FilePaths : IsFile(p) /\ IsPrefix(folder, p)})

\* the records of the pages of one file (prepare_semantic_database, 65-79)
RECURSIVE PageRecords(_, _, _, _)
PageRecords(rel, name, pages, page_number) ==
    IF pages = <<>> THEN <<>>
    ELSE <<Record(rel, name, page_number, Strip(normalize_text(Head(pages))))>>
         \o PageRecords(rel, name, Tail(pages), page_number + 1)

RECURSIVE PrepareRecords(_, _)
PrepareRecords(folder, paths) ==
    IF paths = <<>> THEN <<>>
    ELSE The({PageRecords(SubSeq(file_path, Len(folder) + 1, Len(file_path)),
                          Last(file_path), _extract_pages(file_path), 1) :
                file_path \in {Head(paths)}})
         \o PrepareRecords(folder, Tail(paths))

\* prepare_semantic_database: the index folder after the call
prepare_semantic_database(folder) ==
    [dir |-> TRUE, has_records |-> TRUE,
     records |-> PrepareRecords(folder, _iter_document_paths(folder))]

\* semantic._find_indexed_root: the nearest of path and its ancestors
\* that holds an index folder
RECURSIVE _find_indexed_root(_)
_find_indexed_root(path) ==
    IF path \in Dirs /\ db[path].dir THEN [ok |-> TRUE, root |-> path]
    ELSE IF path = <<>> THEN [ok |-> FALSE, root |-> <<>>]
    ELSE _find_indexed_root(Front(path))

\* list.sort(key=page): a stable insertion of (page, text) by page
RECURSIVE InsertByPage(_, _)
InsertByPage(sorted, item) ==
    IF sorted = <<>> THEN <<item>>
    ELSE IF Last(sorted).page <= item.page THEN Append(sorted, item)
    ELSE Append(InsertByPage(Front(sorted), item), Last(sorted))
RECURSIVE SortByPage(_)
SortByPage(items) ==
    IF items = <<>> THEN <<>> ELSE InsertByPage(SortByPage(Front(items)), Last(items))

RECURSIVE RecordsOf(_, _)
RecordsOf(records, rel) ==
    IF records = <<>> THEN <<>>
    ELSE (IF Head(records).relative_path = rel THEN <<Head(records)>> ELSE <<>>)
         \o RecordsOf(Tail(records), rel)

\* _load_record_indexes_cached: pages_by_path[rel], sorted by page
file_pages(records, rel) == SortByPage(RecordsOf(records, rel))
\* the keys of pages_by_path
indexed_paths(records) == {records[i].relative_path : i \in DOMAIN records}

RECURSIVE TextsOf(_)
TextsOf(items) == IF items = <<>> THEN <<>> ELSE <<Head(items).text>> \o TextsOf(Tail(items))

None == [some |-> FALSE, v |-> <<>>]
Some(v) == [some |-> TRUE, v |-> v]

\* semantic.get_file_pages_from_database
get_file_pages_from_database(file_path) ==
    The({The({IF ~found.ok THEN None
              ELSE IF ~db[found.root].has_records THEN None
              ELSE The({IF pages = <<>> THEN None ELSE Some(TextsOf(pages)) :
                          pages \in {file_pages(db[found.root].records,
                                                SubSeq(resolved_file_path,
                                                       Len(found.root) + 1,
                                                       Len(resolved_file_path)))}}) :
                found \in {_find_indexed_root(resolved_file_path)}}) :
           resolved_file_path \in {Resolve(file_path)}})

\* the indexed files below rel_dir at any depth, whatever recursive is
paths_under_any_depth(indexed_root, rel_dir, recursive) ==
    {indexed_root \o rel : rel \in
        {r \in indexed_paths(db[indexed_root].records) :
            rel_dir = <<>> \/ (IsPrefix(rel_dir, r) /\ Len(r) > Len(rel_dir))}}
\* semantic.get_directory_file_paths_from_database
\* the indexed files under rel_dir of the index at indexed_root
\* (semantic.py:176-199)
paths_under(indexed_root, rel_dir, recursive) ==
    {indexed_root \o rel : rel \in
        {r \in indexed_paths(db[indexed_root].records) :
            IF recursive
            THEN rel_dir = <<>> \/ (IsPrefix(rel_dir, r) /\ Len(r) > Len(rel_dir))
            ELSE Front(r) = rel_dir}}

\* semantic.get_directory_file_paths_from_database
get_directory_file_paths_from_database(directory_path, recursive) ==
    The({The({IF ~found.ok THEN None
              ELSE IF ~db[found.root].has_records THEN None
              ELSE Some(SortedPaths(paths_under(found.root,
                            SubSeq(resolved_dir, Len(found.root) + 1, Len(resolved_dir)),
                            recursive))) :
                found \in {_find_indexed_root(resolved_dir)}}) :
           resolved_dir \in {Resolve(directory_path)}})

-----------------------------------------------------------------------------
(* DSLFile and DSLDirectory (runtime.py) *)

\* DSLFile._chunks: the pages of the file, from the index when it has them
File_chunks(path) ==
    The({IF db_chunks.some THEN Pages(db_chunks.v)
         ELSE The({IF ~read.ok THEN read
                   ELSE Pages(IF read.chunks = <<>> THEN <<<<>>>> ELSE read.chunks) :
                     read \in {IF Suffix(path) = ".pdf" THEN File_read_pdf_pages(path)
                               ELSE File_read_text_chunks(path)}}) :
           db_chunks \in {get_file_pages_from_database(path)}})

\* DSLDirectory._iter_file_paths
_iter_file_paths(path, recursive) ==
    The({IF db_paths.some THEN db_paths.v
         ELSE SortedPaths({p \in FilePaths :
                /\ IsFile(p)
                /\ IF recursive THEN IsPrefix(path, p) /\ Len(p) > Len(path)
                   ELSE Front(p) = path}) :
           db_paths \in {get_directory_file_paths_from_database(path, recursive)}})

\* DSLDirectory._has_db_backed_files
_has_db_backed_files(path) ==
    \E db_paths \in {get_directory_file_paths_from_database(path, TRUE)} :
        db_paths.some /\ db_paths.v # <<>>

-----------------------------------------------------------------------------
(* Python operations on values *)

\* a statement whose evaluation leaves what the model covers (the digits
\* of a float, the characters of a str) is not drawn by the actions
Unmodelled == "<outside the model>"

\* isinstance(v, int): a bool is an int
IsInt(v) == v.k \in {"int", "bool"}
\* isinstance(v, bool), isinstance(v, str), isinstance(v, list)
IsBool(v) == v.k = "bool"
IsStr(v) == v.k = "str"
IsList(v) == v.k = "list"

\* str(v) of an int, a bool, a str or None
PyStr(v) ==
    CASE v.k = "int" -> ToString(v.i)
      [] v.k = "bool" -> IF v.i = 1 THEN "True" ELSE "False"
      [] v.k = "str" -> v.s
      [] v.k = "none" -> "None"
      [] OTHER -> Unmodelled

\* DSLDirectory.__len__
Directory_len(d) == Len(_iter_file_paths(d.e, d.i = 1))

\* bool(v)
PyBool(v) ==
    CASE v.k \in {"int", "bool", "float"} -> v.i # 0
      [] v.k = "str" -> v.s # ""
      [] v.k = "list" -> v.e # <<>>
      [] v.k = "none" -> FALSE
      [] v.k = "dir" -> Directory_len(v) # 0
      [] OTHER -> TRUE

\* Interpreter._is_truthy
_is_truthy(value) == PyBool(value)

\* a % b of Python: the sign of the divisor
PyMod(a, b) == IF b > 0 THEN a % b ELSE -((-a) % (-b))

\* the str of a text read from a document
TextV(text) == Val("str", 0, 1, StrOf(text), text)

RECURSIVE RepeatStr(_, _)
RepeatStr(s, n) == IF n <= 0 THEN "" ELSE s \o RepeatStr(s, n - 1)
RECURSIVE RepeatSeq(_, _)
RepeatSeq(e, n) == IF n <= 0 THEN <<>> ELSE e \o RepeatSeq(e, n - 1)

\* the result of an evaluation: a value, or the DSLRuntimeError raised,
\* and what stdout holds after it
Ok(v, o) == [ok |-> TRUE, val |-> v, err |-> "", out |-> o]
Fail(msg, o) == [ok |-> FALSE, val |-> NoneV, err |-> msg, out |-> o]
TypeError == "unsupported operand type(s)"

HasFloat(l, r) == l.k = "float" \/ r.k = "float"

\* left + right
PyAdd(l, r, o) ==
    CASE HasFloat(l, r) -> Fail(Unmodelled, o)
      [] IsInt(l) /\ IsInt(r) -> Ok(IntV(l.i + r.i), o)
      [] IsStr(l) /\ IsStr(r) -> Ok(Val("str", 0, 1, l.s \o r.s, l.e \o r.e), o)
      [] IsList(l) /\ IsList(r) -> Ok(ListV(l.e \o r.e), o)
      [] OTHER -> Fail(TypeError, o)

\* left - right
PySub(l, r, o) ==
    CASE HasFloat(l, r) -> Fail(Unmodelled, o)
      [] IsInt(l) /\ IsInt(r) -> Ok(IntV(l.i - r.i), o)
      [] OTHER -> Fail(TypeError, o)

\* left * right: a str or a list times an int is repeated
PyMul(l, r, o) ==
    CASE HasFloat(l, r) -> Fail(Unmodelled, o)
      [] IsInt(l) /\ IsInt(r) -> Ok(IntV(l.i * r.i), o)
      [] IsStr(l) /\ IsInt(r) ->
            Ok(Val("str", 0, 1, RepeatStr(l.s, r.i), RepeatSeq(l.e, r.i)), o)
      [] IsInt(l) /\ IsStr(r) ->
            Ok(Val("str", 0, 1, RepeatStr(r.s, l.i), RepeatSeq(r.e, l.i)), o)
      [] IsList(l) /\ IsInt(r) -> Ok(ListV(RepeatSeq(l.e, r.i)), o)
      [] IsInt(l) /\ IsList(r) -> Ok(ListV(RepeatSeq(r.e, l.i)), o)
      [] OTHER -> Fail(TypeError, o)

\* PurePath.__truediv__: path / "name"; an absolute right side replaces path
PathJoin(path, s) ==
    IF s = "" THEN path
    ELSE IF ParsePath(s).abs THEN ParsePath(s).parts
    ELSE path \o ParsePath(s).parts

\* left / right: the true division of Python, a float; on a pathlib.Path
\* the operator joins paths
PyTrueDiv(l, r, o) ==
    CASE l.k = "path" /\ IsStr(r) -> Ok(PathV(PathJoin(l.e, r.s)), o)
      [] r.k = "path" /\ (IsStr(l) \/ l.k = "path") -> Ok(r, o)
      [] HasFloat(l, r) -> Fail(Unmodelled, o)
      [] IsInt(l) /\ IsInt(r) ->
            IF r.i = 0 THEN Fail("division by zero", o)
            ELSE IF r.i < 0 THEN Ok(FloatV(-l.i, -r.i), o)
            ELSE Ok(FloatV(l.i, r.i), o)
      [] OTHER -> Fail(TypeError, o)

\* left % right: a str on the left is a format string
PyModulo(l, r, o) ==
    CASE HasFloat(l, r) -> Fail(Unmodelled, o)
      [] IsInt(l) /\ IsInt(r) ->
            IF r.i = 0 THEN Fail("integer modulo by zero", o)
            ELSE Ok(IntV(PyMod(l.i, r.i)), o)
      [] IsStr(l) -> Fail(Unmodelled, o)
      [] OTHER -> Fail(TypeError, o)

\* left == right, for the values the model compares
RECURSIVE PyEq(_, _)
PyEq(l, r) ==
    CASE IsInt(l) /\ IsInt(r) -> l.i = r.i
      [] IsStr(l) /\ IsStr(r) -> l.s = r.s
      [] IsList(l) /\ IsList(r) ->
            /\ Len(l.e) = Len(r.e)
            /\ \A i \in DOMAIN l.e : PyEq(l.e[i], r.e[i])
      [] l.k = "none" /\ r.k = "none" -> TRUE
      [] OTHER -> FALSE

RECURSIVE HoldsObject(_)
HoldsObject(v) ==
    \/ v.k \in {"float", "dir", "file", "method", "path", "builtin"}
    \/ v.k = "list" /\ \E i \in DOMAIN v.e : HoldsObject(v.e[i])

\* the comparisons: == and != of any two values, order of two ints
PyCompare(op, l, r, o) ==
    CASE HoldsObject(l) \/ HoldsObject(r) -> Fail(Unmodelled, o)
      [] op = "==" -> Ok(BoolV(PyEq(l, r)), o)
      [] op = "!=" -> Ok(BoolV(~PyEq(l, r)), o)
      [] IsInt(l) /\ IsInt(r) ->
            Ok(BoolV(CASE op = "<" -> l.i < r.i
                       [] op = "<=" -> l.i <= r.i
                       [] op = ">" -> l.i > r.i
                       [] OTHER -> l.i >= r.i), o)
      [] l.k = r.k /\ l.k \in {"str", "list"} -> Fail(Unmodelled, o)
      [] OTHER -> Fail("'<' not supported between instances", o)

-----------------------------------------------------------------------------
(* str() and repr() of values, and print *)

\* a value whose str() the model gives
RECURSIVE Printable(_)
Printable(v) ==
    /\ v.k \notin {"float", "method", "builtin", "unbound"}
    /\ v.k = "list" => \A i \in DOMAIN v.e : Printable(v.e[i])

\* the escapes repr() writes for the characters of a str
ReprChar(c) ==
    CASE c = "\n" -> "\\n"
      [] c = "SOH" -> "\\x01"
      [] c = "NBSP" -> "\\xa0"
      [] OTHER -> c
RECURSIVE ReprChars(_)
ReprChars(e) == IF e = <<>> THEN "" ELSE ReprChar(Head(e)) \o ReprChars(Tail(e))

\* DSLFile._display_path, DSLDirectory._display_path: relative to
\* display_root, which is Path.cwd() when the constructor is given none
_display_path(path) == _render_relative_path(path, proc_cwd)

\* repr(v): a str in quotes, DSLFile.__repr__, DSLDirectory.__repr__
RECURSIVE PyRepr(_)
PyRepr(v) ==
    CASE v.k = "str" -> "'" \o ReprChars(v.e) \o "'"
      [] v.k = "list" ->
            "[" \o Join(", ", [i \in DOMAIN v.e |-> PyRepr(v.e[i])]) \o "]"
      [] v.k = "dir" -> "Directory('" \o _display_path(v.e) \o "')"
      [] v.k = "file" -> "File('" \o _display_path(v.e) \o "')"
      [] v.k = "path" -> "PosixPath('" \o AsPosix(v.e) \o "')"
      [] OTHER -> PyStr(v)

\* str(v) as print writes it: DSLFile.__str__, DSLDirectory.__str__
PyStrOf(v) ==
    CASE v.k = "list" -> PyRepr(v)
      [] v.k \in {"dir", "file"} -> _display_path(v.e)
      [] v.k = "path" -> AsPosix(v.e)
      [] OTHER -> PyStr(v)

\* Interpreter._render_value
RECURSIVE _render_value(_)
_render_value(value) ==
    IF IsList(value) THEN ListV([i \in DOMAIN value.e |-> _render_value(value.e[i])])
    ELSE value

\* Interpreter._builtin_print: print(*rendered) writes one line
_builtin_print(args, o) ==
    LET rendered == [i \in DOMAIN args |-> _render_value(args[i])]
    IN  IF \E i \in DOMAIN args : ~Printable(args[i]) THEN Fail(Unmodelled, o)
        ELSE Ok(NoneV,
                Append(o, Join(" ", [i \in DOMAIN rendered |-> PyStrOf(rendered[i])]) \o "\n"))

-----------------------------------------------------------------------------
(* The built-ins and the methods a script can call *)

\* the message of the sandbox check (interpreter.py:219-222)
AccessDenied(candidate, root) ==
    "Access denied. '" \o AsPosix(candidate) \o "' is outside sandbox root '"
        \o AsPosix(root) \o "'"

\* DSLDirectory.__init__
DSLDirectory(path, recursive, o) ==
    IF Exists(path) /\ ~IsDir(path)
    THEN Fail("Path is not a directory: " \o _display_path(path), o)
    ELSE IF ~Exists(path) /\ ~_has_db_backed_files(path)
    THEN Fail("Directory does not exist: " \o _display_path(path), o)
    ELSE Ok(DirV(path, recursive), o)

\* Interpreter._builtin_directory
_builtin_directory(path, recursive, o) ==
    IF ~IsStr(path) THEN Fail("Directory(path) expects a string path", o)
    ELSE IF ~IsBool(recursive)
    THEN Fail("Directory(..., recursive=...) expects a boolean", o)
    ELSE IF path.s \notin PathStrings THEN Fail(Unmodelled, o)
    ELSE The({IF ~IsRelativeTo(candidate, sandbox_root)
              THEN Fail(AccessDenied(candidate, sandbox_root), o)
              ELSE DSLDirectory(candidate, recursive.i = 1, o) :
                candidate \in {IF ~parsed.abs THEN Resolve(cwd \o parsed.parts)
                               ELSE Resolve(parsed.parts) : parsed \in {ParsePath(path.s)}}})

\* Interpreter.builtins (interpreter.py:43-47)
builtins == {"Directory", "print", "len"}

\* the binding of the arguments of a call to the parameters of a Python
\* function: positional first, then by keyword, then the defaults; a
\* required parameter has the default Unbound
Bind(params, defaults, args, kwargs) ==
    The({[ok |-> /\ Len(args) <= Len(params)
                 /\ \A i \in DOMAIN kwargs :
                        \E j \in DOMAIN params : j > Len(args) /\ params[j] = kwargs[i][1]
                 /\ \A j \in DOMAIN params : vals[j] # Unbound,
          vals |-> vals] :
           vals \in {[j \in DOMAIN params |->
                        IF j <= Len(args) THEN args[j]
                        ELSE IF \E i \in DOMAIN kwargs : kwargs[i][1] = params[j]
                        THEN kwargs[CHOOSE i \in DOMAIN kwargs : kwargs[i][1] = params[j]][2]
                        ELSE defaults[j]]}})

CallFailed == "Call failed: TypeError"

\* the number of characters of a str
RECURSIVE StrLen(_)
StrLen(e) ==
    IF e = <<>> THEN 0
    ELSE (IF Head(e) \in {"SOH", "NBSP"} THEN 1 ELSE Len(Head(e))) + StrLen(Tail(e))

\* len(x) of Python
PyLen(x, o) ==
    CASE x.k = "str" -> Ok(IntV(StrLen(x.e)), o)
      [] x.k = "list" -> Ok(IntV(Len(x.e)), o)
      [] x.k = "dir" -> Ok(IntV(Directory_len(x)), o)
      [] OTHER -> Fail(CallFailed, o)

\* the loop of _normalize_pages without the test `value not in normalized`
RECURSIVE NormalizeLoopKeepingDuplicates(_, _, _, _)
NormalizeLoopKeepingDuplicates(pages_values, normalized, total_pages, name) ==
    IF pages_values = <<>> THEN [ok |-> TRUE, v |-> normalized, err |-> ""]
    ELSE IF ~IsInt(Head(pages_values))
    THEN [ok |-> FALSE, v |-> <<>>, err |-> "pages list must contain only integers"]
    ELSE IF Head(pages_values).i < 1 \/ Head(pages_values).i > total_pages
    THEN [ok |-> FALSE, v |-> <<>>, err |-> "Page is out of range for " \o name]
    ELSE NormalizeLoopKeepingDuplicates(Tail(pages_values),
                                        Append(normalized, Head(pages_values)),
                                        total_pages, name)

\* DSLFile._normalize_pages: the loop over pages_values
RECURSIVE NormalizeLoop(_, _, _, _)
NormalizeLoop(pages_values, normalized, total_pages, name) ==
    IF pages_values = <<>> THEN [ok |-> TRUE, v |-> normalized, err |-> ""]
    ELSE LET value == Head(pages_values)
         IN  IF ~IsInt(value)
             THEN [ok |-> FALSE, v |-> <<>>,
                   err |-> "pages list must contain only integers"]
             ELSE IF value.i < 1 \/ value.i > total_pages
             THEN [ok |-> FALSE, v |-> <<>>,
                   err |-> "Page " \o PyStr(value) \o " is out of range for " \o name
                           \o " (1.." \o ToString(total_pages) \o ")"]
             ELSE NormalizeLoop(Tail(pages_values),
                                IF \E i \in DOMAIN normalized : normalized[i].i = value.i
                                THEN normalized ELSE Append(normalized, value),
                                total_pages, name)

\* DSLFile._normalize_pages
_normalize_pages(pages, total_pages, name) ==
    IF IsInt(pages) THEN NormalizeLoop(<<pages>>, <<>>, total_pages, name)
    ELSE IF IsList(pages) THEN NormalizeLoop(pages.e, <<>>, total_pages, name)
    ELSE [ok |-> FALSE, v |-> <<>>,
          err |-> "pages must be an integer or a list of integers"]

\* DSLFile.read
File_read(f, pages, o) ==
    The({IF ~c.ok THEN Fail(c.err, o)
         ELSE IF pages.k = "none" THEN Ok(TextV(JoinText(<<"\n", "\n">>, c.chunks)), o)
         ELSE The({IF ~selected.ok THEN Fail(selected.err, o)
                   ELSE Ok(ListV([i \in DOMAIN selected.v |->
                                    TextV(c.chunks[selected.v[i].i])]), o) :
                     selected \in {_normalize_pages(pages, Len(c.chunks), Last(f.e))}}) :
           c \in {File_chunks(f.e)}})

\* DSLFile.head
File_head(f, o) ==
    The({IF ~c.ok THEN Fail(c.err, o)
         ELSE IF c.chunks = <<>> THEN Ok(StrV(""), o)
         ELSE Ok(TextV(c.chunks[1]), o) :
           c \in {File_chunks(f.e)}})

\* DSLDirectory.files
Directory_files(d, recursive, o) ==
    The({Ok(ListV([i \in DOMAIN paths |-> FileV(paths[i])]), o) :
           paths \in {_iter_file_paths(d.e, IF recursive.k = "none" THEN d.i = 1
                                            ELSE PyBool(recursive))}})

\* pathlib.Path.read_text: the host reads whatever file the path names
Path_read_text(p, o) ==
    IF ~IsFile(Resolve(p.e)) THEN Fail("No such file or directory", o)
    ELSE IF Suffix(Resolve(p.e)) = ".pdf" THEN Fail(Unmodelled, o)
    ELSE Ok(TextV(fs[Resolve(p.e)].units[1]), o)

\* the attributes a script names in the model
AttrNames == {"path", "parent", "read_text", "recursive", "files", "read", "head", "nosuch"}

\* hasattr(obj, name), for the names of AttrNames
HasAttr(obj, name) ==
    CASE obj.k = "dir" -> name \in {"path", "recursive", "files"}
      [] obj.k = "file" -> name \in {"path", "read", "head"}
      [] obj.k = "path" -> name \in {"parent", "read_text"}
      [] OTHER -> FALSE

\* getattr(obj, name): the instance attributes (runtime.py:35, 473-474),
\* the bound methods, and the attributes of pathlib.Path
GetAttr(obj, name) ==
    CASE obj.k \in {"dir", "file"} /\ name = "path" -> PathV(obj.e)
      [] obj.k = "dir" /\ name = "recursive" -> BoolV(obj.i = 1)
      [] obj.k = "path" /\ name = "parent" ->
            PathV(IF obj.e = <<>> THEN <<>> ELSE Front(obj.e))
      [] OTHER -> MethodV(obj, name)

\* callable(v)
Callable(v) == v.k \in {"builtin", "method"}

\* callee(*args, **kwargs), with the TypeError of a bad call reported as
\* "Call failed" (interpreter.py:128-135)
Apply(callee, args, kwargs, o) ==
    CASE callee.k = "builtin" /\ callee.s = "Directory" ->
            The({IF ~b.ok THEN Fail(CallFailed, o)
                 ELSE _builtin_directory(b.vals[1], b.vals[2], o) :
                   b \in {Bind(<<"path", "recursive">>, <<Unbound, BoolV(TRUE)>>,
                               args, kwargs)}})
      [] callee.k = "builtin" /\ callee.s = "print" ->
            IF kwargs # <<>> THEN Fail(CallFailed, o) ELSE _builtin_print(args, o)
      [] callee.k = "builtin" /\ callee.s = "len" ->
            IF kwargs # <<>> \/ Len(args) # 1 THEN Fail(CallFailed, o)
            ELSE PyLen(args[1], o)
      [] callee.k = "method" ->
            The({CASE self.k = "file" /\ callee.s = "read" ->
                        IF ~b.ok THEN Fail(CallFailed, o) ELSE File_read(self, b.vals[1], o)
                   [] self.k = "file" /\ callee.s = "head" ->
                        IF ~b.ok THEN Fail(CallFailed, o) ELSE File_head(self, o)
                   [] self.k = "dir" /\ callee.s = "files" ->
                        IF ~b.ok THEN Fail(CallFailed, o)
                        ELSE Directory_files(self, b.vals[1], o)
                   [] self.k = "path" /\ callee.s = "read_text" ->
                        IF ~b.ok THEN Fail(Unmodelled, o) ELSE Path_read_text(self, o)
                   [] OTHER -> Fail(Unmodelled, o) :
                   self \in {callee.e[1]},
                   b \in {Bind(CASE callee.s = "read" -> <<"pages">>
                                 [] callee.s = "files" -> <<"recursive">>
                                 [] OTHER -> <<>>,
                               CASE callee.s \in {"read", "files"} -> <<NoneV>>
                                 [] OTHER -> <<>>,
                               args, kwargs)}})
      [] OTHER -> Fail(Unmodelled, o)

-----------------------------------------------------------------------------
(* The syntax tree (ast_nodes.py).  An else_body of None is the empty      *)
(* sequence: the evaluator runs no statement for either.                   *)

Literal(value) == [t |-> "Literal", value |-> value]
Name(identifier) == [t |-> "Name", identifier |-> identifier]
ListLiteral(items) == [t |-> "ListLiteral", items |-> items]
RangeItem(start, end) == [t |-> "RangeItem", start |-> start, end |-> end]
Attribute(obj, name) == [t |-> "Attribute", obj |-> obj, name |-> name]
Call(callee, args, kwargs) ==
    [t |-> "Call", callee |-> callee, args |-> args, kwargs |-> kwargs]
UnaryOp(op, operand) == [t |-> "UnaryOp", op |-> op, operand |-> operand]
BinaryOp(op, left, right) ==
    [t |-> "BinaryOp", op |-> op, left |-> left, right |-> right]
CompareOp(op, left, right) ==
    [t |-> "CompareOp", op |-> op, left |-> left, right |-> right]
Assign(name, expr) == [t |-> "Assign", name |-> name, expr |-> expr]
ExprStatement(expr) == [t |-> "ExprStatement", expr |-> expr]
ForStatement(var_name, iterable, body) ==
    [t |-> "ForStatement", var_name |-> var_name, iterable |-> iterable, body |-> body]
IfStatement(branches, else_body) ==
    [t |-> "IfStatement", branches |-> branches, else_body |-> else_body]

\* the names a script of the model assigns
VarNames == {"x", "f"}

-----------------------------------------------------------------------------
(* Interpreter._eval_expr: the value of an expression under the variables  *)
(* vs, and stdout o after it                                               *)

\* range(start, end + 1) or range(start, end - 1, -1), as a list
PyRange(start, end) ==
    IF start <= end THEN [i \in 1..(end - start + 1) |-> IntV(start + i - 1)]
    ELSE [i \in 1..(start - end + 1) |-> IntV(start - i + 1)]

RECURSIVE _eval_expr(_, _, _)
RECURSIVE _eval_list_literal(_, _, _, _)
RECURSIVE EvalArgs(_, _, _, _)
RECURSIVE EvalKwargs(_, _, _, _)

\* Interpreter._eval_list_literal: values is the list built so far
_eval_list_literal(items, values, vs, o) ==
    IF items = <<>> THEN Ok(ListV(values), o)
    ELSE IF Head(items).t = "RangeItem"
    THEN The({IF ~start.ok THEN start
              ELSE The({IF ~end.ok THEN end
                        ELSE IF ~IsInt(start.val) \/ ~IsInt(end.val)
                        THEN Fail("Range bounds must be integers", end.out)
                        ELSE _eval_list_literal(Tail(items),
                                 values \o PyRange(start.val.i, end.val.i), vs, end.out) :
                          end \in {_eval_expr(Head(items).end, vs, start.out)}}) :
                start \in {_eval_expr(Head(items).start, vs, o)}})
    ELSE The({IF ~v.ok THEN v
              ELSE _eval_list_literal(Tail(items), Append(values, v.val), vs, v.out) :
                v \in {_eval_expr(Head(items), vs, o)}})

\* [self._eval_expr(arg) for arg in expr.args]: val is the list of values
EvalArgs(args, values, vs, o) ==
    IF args = <<>> THEN Ok(values, o)
    ELSE The({IF ~v.ok THEN v
              ELSE EvalArgs(Tail(args), Append(values, v.val), vs, v.out) :
                v \in {_eval_expr(Head(args), vs, o)}})

\* {name: self._eval_expr(value) for name, value in expr.kwargs}
EvalKwargs(kwargs, values, vs, o) ==
    IF kwargs = <<>> THEN Ok(values, o)
    ELSE The({IF ~v.ok THEN v
              ELSE EvalKwargs(Tail(kwargs), Append(values, <<Head(kwargs)[1], v.val>>),
                              vs, v.out) :
                v \in {_eval_expr(Head(kwargs)[2], vs, o)}})

_eval_expr(expr, vs, o) ==
    CASE expr.t = "Literal" -> Ok(expr.value, o)
      [] expr.t = "Name" ->
            IF expr.identifier \in VarNames /\ vs[expr.identifier] # Unbound
            THEN Ok(vs[expr.identifier], o)
            ELSE IF expr.identifier \in builtins THEN Ok(BuiltinV(expr.identifier), o)
            ELSE Fail("Undefined variable '" \o expr.identifier \o "'", o)
      [] expr.t = "ListLiteral" -> _eval_list_literal(expr.items, <<>>, vs, o)
      [] expr.t = "RangeItem" ->
            Fail("Range syntax is only valid inside list literals", o)
      [] expr.t = "Attribute" ->
            The({IF ~obj.ok THEN obj
                 ELSE IF ~HasAttr(obj.val, expr.name)
                 THEN Fail("Object has no attribute '" \o expr.name \o "'", obj.out)
                 ELSE Ok(GetAttr(obj.val, expr.name), obj.out) :
                   obj \in {_eval_expr(expr.obj, vs, o)}})
      [] expr.t = "Call" ->
            The({IF ~callee.ok THEN callee
                 ELSE IF ~Callable(callee.val)
                 THEN Fail("Attempted to call a non-callable value", callee.out)
                 ELSE The({IF ~args.ok THEN args
                           ELSE The({IF ~kwargs.ok THEN kwargs
                                     ELSE Apply(callee.val, args.val, kwargs.val,
                                                kwargs.out) :
                                       kwargs \in {EvalKwargs(expr.kwargs, <<>>, vs,
                                                              args.out)}}) :
                             args \in {EvalArgs(expr.args, <<>>, vs, callee.out)}}) :
                   callee \in {_eval_expr(expr.callee, vs, o)}})
      [] expr.t = "UnaryOp" ->
            The({IF ~operand.ok THEN operand
                 ELSE IF expr.op = "not"
                 THEN Ok(BoolV(~_is_truthy(operand.val)), operand.out)
                 ELSE IF ~IsInt(operand.val)
                 THEN Fail("Unary '-' expects an integer", operand.out)
                 ELSE Ok(IntV(-operand.val.i), operand.out) :
                   operand \in {_eval_expr(expr.operand, vs, o)}})
      [] expr.t \in {"BinaryOp", "CompareOp"} ->
            The({IF ~left.ok THEN left
                 ELSE IF expr.op \in {"and", "or"} /\ _is_truthy(left.val) = (expr.op = "or")
                 THEN Ok(BoolV(expr.op = "or"), left.out)
                 ELSE The({IF ~right.ok THEN right
                           ELSE IF expr.t = "CompareOp"
                           THEN PyCompare(expr.op, left.val, right.val, right.out)
                           ELSE CASE expr.op \in {"and", "or"} ->
                                        Ok(BoolV(_is_truthy(right.val)), right.out)
                                  [] expr.op = "+" -> PyAdd(left.val, right.val, right.out)
                                  [] expr.op = "-" -> PySub(left.val, right.val, right.out)
                                  [] expr.op = "*" -> PyMul(left.val, right.val, right.out)
                                  [] expr.op = "/" ->
                                        PyTrueDiv(left.val, right.val, right.out)
                                  [] expr.op = "%" ->
                                        PyModulo(left.val, right.val, right.out)
                                  [] OTHER ->
                                        Fail("Unsupported binary operator", right.out) :
                             right \in {_eval_expr(expr.right, vs, left.out)}}) :
                   left \in {_eval_expr(expr.left, vs, o)}})
      [] OTHER -> Fail("Unsupported expression", o)

-----------------------------------------------------------------------------
(* Interpreter._execute_statement: a run is [ok, vars, out, err], ok until *)
(* a DSLRuntimeError is raised                                             *)

Running(vs, o) == [ok |-> TRUE, vars |-> vs, out |-> o, err |-> ""]
Raised(vs, o, msg) == [ok |-> FALSE, vars |-> vs, out |-> o, err |-> msg]

\* hasattr(v, "__iter__")
IsIterable(v) == v.k \in {"list", "str", "dir"}

\* the values iter(v) yields: the items of a list, DSLDirectory.__iter__
Iterate(v) ==
    IF v.k = "dir"
    THEN The({[i \in DOMAIN files |-> FileV(files[i])] :
                files \in {_iter_file_paths(v.e, v.i = 1)}})
    ELSE v.e

RECURSIVE _execute_statement(_, _)
RECURSIVE ExecBody(_, _)
RECURSIVE ForLoop(_, _, _, _)
RECURSIVE IfBranches(_, _, _)

\* for child_stmt in body: self._execute_statement(child_stmt)
ExecBody(body, st) ==
    IF body = <<>> \/ ~st.ok THEN st
    ELSE ExecBody(Tail(body), _execute_statement(Head(body), st))

\* for value in iterable (interpreter.py:72-75)
ForLoop(var_name, values, body, st) ==
    IF values = <<>> \/ ~st.ok THEN st
    ELSE ForLoop(var_name, Tail(values), body,
                 ExecBody(body, [st EXCEPT !.vars[var_name] = Head(values)]))

\* for condition, body in stmt.branches (interpreter.py:79-86)
IfBranches(branches, else_body, st) ==
    IF branches = <<>> THEN ExecBody(else_body, st)
    ELSE The({IF ~condition.ok THEN Raised(st.vars, condition.out, condition.err)
              ELSE IF _is_truthy(condition.val)
              THEN ExecBody(Head(branches)[2], Running(st.vars, condition.out))
              ELSE IfBranches(Tail(branches), else_body, Running(st.vars, condition.out)) :
                condition \in {_eval_expr(Head(branches)[1], st.vars, st.out)}})

_execute_statement(stmt, st) ==
    CASE stmt.t \in {"Assign", "ExprStatement"} ->
            The({IF ~r.ok THEN Raised(st.vars, r.out, r.err)
                 ELSE IF stmt.t = "Assign"
                 THEN Running([st.vars EXCEPT ![stmt.name] = r.val], r.out)
                 ELSE Running(st.vars, r.out) :
                   r \in {_eval_expr(stmt.expr, st.vars, st.out)}})
      [] stmt.t = "ForStatement" ->
            The({IF ~iterable.ok THEN Raised(st.vars, iterable.out, iterable.err)
                 ELSE IF ~IsIterable(iterable.val)
                 THEN Raised(st.vars, iterable.out, "for-loop target is not iterable")
                 ELSE IF IsStr(iterable.val) THEN Raised(st.vars, iterable.out, Unmodelled)
                 ELSE ForLoop(stmt.var_name, Iterate(iterable.val), stmt.body,
                              Running(st.vars, iterable.out)) :
                   iterable \in {_eval_expr(stmt.iterable, st.vars, st.out)}})
      [] stmt.t = "IfStatement" -> IfBranches(stmt.branches, stmt.else_body, st)
      [] OTHER -> Raised(st.vars, st.out, "Unsupported statement")

-----------------------------------------------------------------------------
(* The scripts of the model: the statements a run draws from               *)

Num(n) == Literal(IntV(n))
Str(s) == Literal(StrV(s))
True == Literal(BoolV(TRUE))
False == Literal(BoolV(FALSE))

IntLits == {Num(n) : n \in 0..MaxInt}
Operands == IntLits \cup {True, Str("a"), Name("x")}
RightOperands == {Num(0), Num(MaxInt), Str("a")}
ArithOps == {"+", "-", "*", "/", "%"}
BinaryExprs ==
    {BinaryOp(op, l, r) : op \in ArithOps \cup {"and", "or"}, l \in Operands,
                          r \in RightOperands}
UnaryExprs == {UnaryOp(op, e) : op \in {"not", "-"}, e \in Operands}
CompareExprs ==
    {CompareOp(op, l, r) : op \in {"==", "!=", "<", "<=", ">", ">="},
                           l \in {Num(1), Name("x")}, r \in {Num(1), Str("a")}}

\* the items of a list literal: at most MaxItems, at most one a:b
RangeBounds == {Num(0), Num(MaxInt), True, Str("a"), UnaryOp("-", Num(1))}
RangeItems == {RangeItem(a, b) : a \in RangeBounds, b \in RangeBounds}
PlainItems == {Num(1), Str("a")}
Items(S, n) == UNION {[1..k -> S] : k \in 0..n}
ListExprs ==
    {ListLiteral(s) : s \in Items(PlainItems, MaxItems)}
    \cup {ListLiteral(pre \o <<r>> \o post) :
            r \in RangeItems,
            pre \in Items(PlainItems, 1), post \in Items(PlainItems, 1)}

DirectoryCalls ==
    {Call(Name("Directory"), <<Str(p)>>, kw) :
        p \in PathStrings,
        kw \in {<<>>, <<<<"recursive", False>>>>}}
    \cup {Call(Name("Directory"), <<Num(1)>>, <<>>),
          Call(Name("Directory"), <<>>, <<>>),
          Call(Name("Directory"), <<Str(".")>>, <<<<"recursive", Num(1)>>>>),
          Call(Name("Directory"), <<Str("."), True>>, <<<<"recursive", True>>>>)}
FileCalls == {Call(Name("File"), <<Str(p)>>, <<>>) : p \in {"a.txt", "/etc/passwd"}}

AttributeExprs ==
    {Attribute(Name(v), n) : v \in VarNames, n \in AttrNames}
    \cup {Attribute(Attribute(Name(v), "path"), "parent") : v \in VarNames}
PageExprs ==
    IntLits \cup {UnaryOp("-", Num(1)), Str("a"), True}
    \cup {ListLiteral(s) : s \in Items(IntLits, MaxItems) \ {<<>>}}
    \cup {ListLiteral(<<Num(1), True>>), ListLiteral(<<Str("a")>>)}
MethodCalls ==
    {Call(Attribute(Name(v), m), <<>>, <<>>) :
        v \in VarNames, m \in {"read", "head", "files", "read_text"}}
    \cup {Call(Attribute(Name("f"), "read"), <<>>, <<<<"pages", e>>>>) : e \in PageExprs}
    \cup {Call(Attribute(Name("f"), "read"), <<Num(1)>>, <<<<"pages", Num(1)>>>>),
          Call(Attribute(Name("x"), "files"), <<False>>, <<>>),
          Call(Attribute(Attribute(Name("x"), "path"), "read_text"), <<>>, <<>>),
          Call(Attribute(BinaryOp("/", Attribute(Name("x"), "path"), Str("/etc/passwd")),
                         "read_text"), <<>>, <<>>)}
LenCalls ==
    {Call(Name("len"), <<e>>, <<>>) : e \in {Name("x"), Str("a"), Num(1)}}
    \cup {Call(Name("len"), <<>>, <<>>)}
PrintCalls ==
    {Call(Name("print"), <<e>>, <<>>) :
        e \in Operands \cup {False, Name("f"), ListLiteral(<<True, Str("a")>>)}}
    \cup {Call(Name("print"), <<>>, <<>>),
          Call(Name("print"), <<Num(1), Name("x")>>, <<>>),
          Call(Name("print"), <<Num(1)>>, <<<<"sep", Str("a")>>>>),
          Call(Num(1), <<>>, <<>>)}

Exprs ==
    IntLits \cup {True, False, Str("a"), Str(""), Name("f"), Name("print"),
                  RangeItem(Num(1), Num(2))}
    \cup BinaryExprs \cup UnaryExprs \cup CompareExprs \cup ListExprs
    \cup DirectoryCalls \cup FileCalls \cup AttributeExprs \cup MethodCalls
    \cup LenCalls \cup {Call(Name("print"), <<Str("a")>>, <<>>)}

\* the bodies of a for and of the branches of an if
Bodies ==
    {<<Assign("x", e)>> :
        e \in {Num(1), Name("f"), BinaryOp("+", Name("x"), Num(1)),
               Call(Attribute(Name("f"), "read"), <<>>, <<<<"pages", Num(MaxInt)>>>>)}}
    \cup {<<ExprStatement(Call(Name("print"), <<Name("f")>>, <<>>))>>,
          <<ExprStatement(Call(Name("print"), <<Str("a")>>, <<>>)), Assign("x", Num(2))>>}
Iterables ==
    {Name("x"), Num(1), Str("a"), Name("File"), ListLiteral(<<Num(1), Num(2)>>),
     Call(Name("Directory"), <<Str(".")>>, <<>>),
     Call(Name("Directory"), <<Str("sub")>>, <<>>),
     Call(Name("Directory"), <<Str("empty")>>, <<>>)}
Conditions ==
    {Name("x"), Name("f"), Num(0), Str(""), ListLiteral(<<>>), True,
     Call(Name("Directory"), <<Str("empty")>>, <<>>),
     Call(Name("Directory"), <<Str("sub")>>, <<>>),
     BinaryOp("/", Num(1), Num(0))}
Then == <<Assign("x", Str("then"))>>
Elif == <<Assign("x", Str("elif"))>>
Else == <<Assign("x", Str("else"))>>
IfStatements ==
    {IfStatement(<<<<c, Then>>>>, e) : c \in Conditions, e \in {<<>>, Else}}
    \cup {IfStatement(<<<<False, Then>>, <<c, Elif>>>>, Else) : c \in Conditions}

-----------------------------------------------------------------------------
(* The run of one script, statement by statement (_execute_program)        *)

NoStatement == [t |-> "none"]
NoVariables == [n \in VarNames |-> Unbound]

\* no script is run
IdleInterpreter ==
    /\ cwd = Box
    /\ sandbox_root = Box
    /\ proc_cwd = Box
    /\ variables = NoVariables
    /\ out = <<>>
    /\ status = "none"
    /\ err = ""
    /\ last = [stmt |-> NoStatement, pre |-> NoVariables, out |-> <<>>]
    /\ nstmts = 0

\* no host program calls the runtime, starts threads or wants a deadline
NoCall == [op |-> "none"]
NoBefore == [taken |-> FALSE]
NoRun == [pc |-> "none"]
NoBudget == [made |-> FALSE]
NoProbe == [op |-> "none"]
NoClock ==
    /\ clock = 0
    /\ budget = NoBudget
    /\ probe = NoProbe
NoCaller == [kind |-> "none"]
NoFileOfVectors == [exists |-> FALSE, rows |-> <<>>, seed |-> 0]
NoHits == [made |-> FALSE]
NoVectors ==
    /\ vectors = [d \in Dirs |-> NoFileOfVectors]
    /\ procs = <<>>
    /\ hits = NoHits
NoDirCall == [op |-> "none"]
NoDir ==
    /\ dcall = NoDirCall
    /\ locked = {}
NoSource == [script |-> <<>>, done |-> FALSE]
NoCache ==
    /\ disk = <<>>
    /\ lru = <<>>
    /\ readers = <<>>
    /\ had = {}
NoLookup == [made |-> FALSE]
NoFileCall == [op |-> "none"]
NoObject ==
    /\ dslfile = [path |-> <<>>]
    /\ fcall = NoFileCall
NoLoop ==
    /\ heap = <<>>
    /\ env = <<>>
    /\ floop = [pc |-> "none"]
NoLine == [text |-> <<>>, done |-> FALSE]
NoProg == [pc |-> "none"]
NoText == oneline = NoLine /\ prog = NoProg
NoMore == NoCache /\ lookup = NoLookup /\ NoObject /\ NoLoop /\ NoText
NoRest == NoVectors /\ NoDir /\ source = NoSource /\ NoMore
NoLater == NoClock /\ caller = NoCaller /\ NoRest
NoHost ==
    /\ NoLater
    /\ call = NoCall
    /\ before = NoBefore
    /\ sys_stdout = "console"
    /\ threads = <<>>
    /\ console = <<>>
    /\ run = NoRun

\* the documents of the filesystem: a text file of three lines, a PDF of
\* two pages, and a file outside the sandbox root
Documents ==
    [p \in FilePaths |->
        CASE p = FileA -> Doc(<<<<"a", "\n", "SOH", "b", "\n", "a">>>>)
          [] p = FileN -> Doc(<<<<"a">>, <<"b", " ">>>>)
          [] p = FileP -> Doc(<<<<"b", "a">>>>)
          [] OTHER -> NoFile]

Init ==
    /\ fs = Documents
    /\ db = [d \in Dirs |-> NoDb]
    /\ cwd = Box
    /\ sandbox_root = Box
    /\ proc_cwd \in {Box, Root}
    /\ variables = NoVariables
    /\ out = <<>>
    /\ status = "running"
    /\ err = ""
    /\ last = [stmt |-> NoStatement, pre |-> NoVariables, out |-> <<>>]
    /\ nstmts = 0
    /\ NoHost

\* self._execute_statement(statement) for the next statement of the program
Step(stmt) ==
    /\ \E st \in {_execute_statement(stmt, Running(variables, out))} :
           /\ st.err # Unmodelled
           /\ variables' = st.vars
           /\ out' = st.out
           /\ status' = IF st.ok THEN "running" ELSE "error"
           /\ err' = st.err
    /\ last' = [stmt |-> stmt, pre |-> variables, out |-> out]
    /\ nstmts' = nstmts + 1
    /\ UNCHANGED <<fs, db, cwd, sandbox_root, proc_cwd, indexVars, threadVars, budgetVars, laterVars>>

\* the program goes on while no error was raised (the bound: MaxStmts)
MoreStatements == status = "running" /\ nstmts < MaxStmts

\* isinstance(stmt, Assign)
ExecAssign ==
    /\ MoreStatements
    /\ \E e \in Exprs : Step(Assign("x", e))

\* isinstance(stmt, ExprStatement)
ExecExprStatement ==
    /\ MoreStatements
    /\ \E e \in PrintCalls \cup MethodCalls : Step(ExprStatement(e))

\* isinstance(stmt, ForStatement)
ExecFor ==
    /\ MoreStatements
    /\ \E it \in Iterables, body \in Bodies : Step(ForStatement("f", it, body))

\* isinstance(stmt, IfStatement)
ExecIf ==
    /\ MoreStatements
    /\ \E s \in IfStatements : Step(s)

Next == ExecAssign \/ ExecExprStatement \/ ExecFor \/ ExecIf

vars == <<worldVars, interpVars, indexVars, threadVars, budgetVars, laterVars>>

Spec == Init /\ [][Next]_vars

-----------------------------------------------------------------------------
(* Properties of a run.  The value an argument of the last statement had   *)
(* is read from the statement and from the variables before it.            *)

\* the value of a literal, of a name, or of a list of literals
ArgValue(e) ==
    CASE e.t = "Literal" -> e.value
      [] e.t = "Name" ->
            IF e.identifier \in VarNames THEN last.pre[e.identifier] ELSE Unbound
      [] e.t = "ListLiteral" /\ \A i \in DOMAIN e.items : e.items[i].t = "Literal" ->
            ListV([i \in DOMAIN e.items |-> e.items[i].value])
      [] e.t = "UnaryOp" /\ e.op = "-" /\ e.operand.t = "Literal" /\ e.operand.value.k = "int" ->
            IntV(-e.operand.value.i)
      [] OTHER -> Unbound

\* a value of the language: integer, string, boolean, sequence, Directory, File
RECURSIVE IsDslValue(_)
IsDslValue(v) ==
    /\ v.k \in {"int", "bool", "str", "list", "dir", "file"}
    /\ v.k = "list" => \A i \in DOMAIN v.e : IsDslValue(v.e[i])

\* the absolute, normalized path a script's path string q names
ResolvedPath(q) ==
    IF ParsePath(q).abs THEN Resolve(ParsePath(q).parts)
    ELSE Resolve(cwd \o ParsePath(q).parts)

\* C1: a call Directory(q) or File(q) succeeds only if the resolved path is
\* the sandbox root or lies inside it; when q resolves outside the root the
\* call fails with a runtime error naming the path and the root, and no
\* variable is bound.
C1_SandboxContainment ==
    \A b \in {"Directory", "File"}, q \in PathStrings :
        last.stmt = Assign("x", Call(Name(b), <<Str(q)>>, <<>>)) =>
            /\ status = "running" => IsRelativeTo(ResolvedPath(q), sandbox_root)
            /\ ~IsRelativeTo(ResolvedPath(q), sandbox_root) =>
                  /\ status = "error"
                  /\ err = "Access denied. '" \o AsPosix(ResolvedPath(q))
                           \o "' is outside sandbox root '" \o AsPosix(sandbox_root) \o "'"
                  /\ variables = last.pre

\* a value that opens or lists paths of the host without the sandbox check
RECURSIVE OpensUnchecked(_)
OpensUnchecked(v) ==
    \/ v.k = "path"
    \/ v.k = "method" /\ v.e[1].k = "path"
    \/ v.k = "list" /\ \E i \in DOMAIN v.e : OpensUnchecked(v.e[i])

\* the text of the document outside the sandbox root
OutsideText == TextV(fs[FileP].units[1])

\* C2: no sequence of attribute lookups, calls and operators gives a script
\* a value that opens or lists a path without the sandbox resolver, and so
\* no script holds the text of a document outside the sandbox root.
C2_OnlyDslSurface ==
    \A n \in VarNames :
        /\ ~OpensUnchecked(variables[n])
        /\ variables[n] # OutsideText

\* the integers from a to b, both included, ascending or descending
Interval(a, b) ==
    IF a <= b THEN [i \in 1..(b - a + 1) |-> IntV(a + i - 1)]
    ELSE [i \in 1..(a - b + 1) |-> IntV(a - i + 1)]

\* C5: a range item a:b of a list literal contributes, at its place among
\* the other items, the integers from a to b, both ends included; a bound
\* that is not an integer is a runtime error.
C5_RangeItem ==
    \A r \in RangeItems, pre \in Items(PlainItems, 1), post \in Items(PlainItems, 1) :
        last.stmt = Assign("x", ListLiteral(pre \o <<r>> \o post)) =>
            IF ArgValue(r.start).k = "int" /\ ArgValue(r.end).k = "int"
            THEN /\ status = "running"
                 /\ variables["x"] =
                        ListV([i \in DOMAIN pre |-> pre[i].value]
                              \o Interval(ArgValue(r.start).i, ArgValue(r.end).i)
                              \o [i \in DOMAIN post |-> post[i].value])
            ELSE status = "error" /\ err = "Range bounds must be integers"

\* false, 0, the empty string and the empty sequence
Falsy(v) ==
    \/ v.k \in {"int", "bool"} /\ v.i = 0
    \/ v.k = "str" /\ v.s = ""
    \/ v.k = "list" /\ v.e = <<>>

\* C7: in a condition, false, 0, the empty string and the empty sequence
\* are falsy and every other value is truthy: every Directory and every
\* File is truthy, whatever number of files it has.
C7_Truthiness ==
    /\ \A c \in Conditions :
          (/\ last.stmt = IfStatement(<<<<c, Then>>>>, Else)
           /\ IsDslValue(ArgValue(c))) =>
              /\ status = "running"
              /\ variables["x"] = IF Falsy(ArgValue(c)) THEN StrV("else") ELSE StrV("then")
    /\ \A p \in PathStrings :
          (/\ last.stmt = IfStatement(<<<<Call(Name("Directory"), <<Str(p)>>, <<>>), Then>>>>,
                                      Else)
           /\ status = "running") =>
              variables["x"] = StrV("then")

\* the quotient of a by b truncated toward zero
TruncDiv(a, b) ==
    IF (a >= 0) = (b > 0) THEN a \div b
    ELSE -((-a) \div b)

\* C8: -, *, / and % of two integers give an integer, / the quotient
\* truncated toward zero; with an operand that is not an integer they fail
\* with a runtime error.
C8_IntegerArithmetic ==
    \A op \in {"-", "*", "/", "%"}, l \in Operands, r \in RightOperands :
        (/\ last.stmt = Assign("x", BinaryOp(op, l, r))
         /\ IsDslValue(ArgValue(l))) =>
            IF ArgValue(l).k = "int" /\ ArgValue(r).k = "int"
            THEN (op \in {"/", "%"} => ArgValue(r).i # 0) =>
                    /\ status = "running"
                    /\ variables["x"].k = "int"
                    /\ op = "-" => variables["x"].i = ArgValue(l).i - ArgValue(r).i
                    /\ op = "*" => variables["x"].i = ArgValue(l).i * ArgValue(r).i
                    /\ op = "/" => variables["x"].i = TruncDiv(ArgValue(l).i, ArgValue(r).i)
            ELSE status = "error"

\* the rendering of a value by print: true and false, [e1, e2], and the
\* path of a Directory or a File relative to the script's working directory
RECURSIVE Rendering(_)
Rendering(v) ==
    CASE v.k = "bool" -> IF v.i = 1 THEN "true" ELSE "false"
      [] v.k = "int" -> ToString(v.i)
      [] v.k = "str" -> v.s
      [] v.k = "list" ->
            "[" \o Join(", ", [i \in DOMAIN v.e |-> Rendering(v.e[i])]) \o "]"
      [] OTHER -> relpath(Resolve(v.e), Resolve(cwd))

\* C9: print(v1, ..., vn) writes one line: the renderings of the arguments
\* joined by single spaces, and a newline.
C9_PrintRendering ==
    \A c \in PrintCalls :
        (/\ last.stmt = ExprStatement(c)
         /\ c.callee = Name("print")
         /\ c.kwargs = <<>>
         /\ \A i \in DOMAIN c.args : IsDslValue(ArgValue(c.args[i]))) =>
            /\ status = "running"
            /\ out = Append(last.out,
                            Join(" ", [i \in DOMAIN c.args |-> Rendering(ArgValue(c.args[i]))])
                            \o "\n")

-----------------------------------------------------------------------------
(* A host program that prepares the index of a folder, deletes documents   *)
(* and calls the methods of DSLFile and DSLDirectory objects it makes.     *)
(* The files of the index folder of a subfolder are documents of an outer  *)
(* prepare; the model leaves that out: one folder at a time has an index.  *)

\* the characters of the name of a file or of a directory
NameChars(name) ==
    CASE name = "a.txt" -> <<"a", ".", "t", "x", "t">>
      [] name = "n.pdf" -> <<"n", ".", "p", "d", "f">>
      [] name = "p.txt" -> <<"p", ".", "t", "x", "t">>
      [] name = "passwd" -> <<"p", "a", "s", "s", "w", "d">>
      [] name = "sub" -> <<"s", "u", "b">>
      [] name = "box" -> <<"b", "o", "x">>
      [] name = "empty" -> <<"e", "m", "p", "t", "y">>
      [] OTHER -> <<"e", "t", "c">>

\* the characters of Path.as_posix() of a relative path
RECURSIVE PosixChars(_)
PosixChars(rel) ==
    IF rel = <<>> THEN <<".">>
    ELSE IF Len(rel) = 1 THEN NameChars(rel[1])
    ELSE NameChars(rel[1]) \o <<"/">> \o PosixChars(Tail(rel))

\* regex.search(text), for a pattern that is one letter
RegexSearch(pattern, text) == Contains(text, pattern)

\* DSLFile.search: the numbers of the pages the pattern matches
RECURSIVE MatchingPages(_, _, _)
MatchingPages(pattern, chunks, page_index) ==
    IF chunks = <<>> THEN <<>>
    ELSE (IF RegexSearch(pattern, Head(chunks)) THEN <<IntV(page_index)>> ELSE <<>>)
         \o MatchingPages(pattern, Tail(chunks), page_index + 1)
File_search(f, pattern, o) ==
    The({IF ~c.ok THEN Fail(c.err, o)
         ELSE Ok(ListV(MatchingPages(pattern, c.chunks, 1)), o) :
           c \in {File_chunks(f.e)}})

\* DSLFile.contains
File_contains(f, pattern, o) ==
    The({IF ~matches.ok THEN matches ELSE Ok(BoolV(matches.val.e # <<>>), o) :
           matches \in {File_search(f, pattern, o)}})

\* DSLDirectory.search with scope "name": the files whose name or path
\* relative to the directory matches
RECURSIVE NameMatches(_, _, _)
NameMatches(pattern, base, files) ==
    IF files = <<>> THEN <<>>
    ELSE (IF \/ RegexSearch(pattern, NameChars(Last(Head(files))))
             \/ RegexSearch(pattern, PosixChars(SubSeq(Head(files), Len(base) + 1,
                                                       Len(Head(files)))))
          THEN <<FileV(Head(files))>> ELSE <<>>)
         \o NameMatches(pattern, base, Tail(files))
Directory_search(d, pattern, o) ==
    Ok(ListV(NameMatches(pattern, d.e, _iter_file_paths(d.e, d.i = 1))), o)

\* the folders the host prepares, the documents it deletes, its calls
IndexFolders == {Box, Sub}
Deletable == {FileA, FileN}
Patterns == {"a", "b"}
NamePatterns == {"a", "n", "s"}
PageNumbers == {IntV(n) : n \in 0..(MaxInt + 1)}
PagesArgs == PageNumbers \cup {ListV(s) : s \in Items(PageNumbers, MaxItems)}
ACall(op, path, arg) == [op |-> op, path |-> path, arg |-> arg]
Calls ==
    {ACall(op, p, NoneV) : op \in {"read", "head"}, p \in Deletable}
    \cup {ACall("contains", p, StrV(c)) : p \in Deletable, c \in Patterns}
    \cup {ACall("search", F, StrV(c)) : F \in IndexFolders, c \in NamePatterns}
ReadCalls == {ACall("read", p, P) : p \in Deletable, P \in PagesArgs}

\* the result of a call now: File(p).read(...), File(p).head(),
\* File(p).contains(t), Directory(F).search(name)
CallResult(c) ==
    CASE c.op = "read" -> File_read(FileV(c.path), c.arg, <<>>)
      [] c.op = "head" -> File_head(FileV(c.path), <<>>)
      [] c.op = "contains" -> File_contains(FileV(c.path), c.arg.s, <<>>)
      [] OTHER ->
            The({IF ~d.ok THEN d ELSE Directory_search(d.val, c.arg.s, <<>>) :
                   d \in {DSLDirectory(c.path, TRUE, <<>>)}})

\* the documents a host can start from: a text file, and a PDF of pages
Texts ==
    {<<"a", "\n", "b">>, <<"a", "SOH", "b">>, <<" ", "a", "NBSP">>, <<>>}
PdfPages == {<<<<"a">>, <<"b", " ">>>>, <<<<"b">>, <<>>, <<"a", "b">>>>}

InitIndex ==
    /\ \E text \in Texts, pages \in PdfPages :
          fs = [p \in FilePaths |->
                  CASE p = FileA -> Doc(<<text>>)
                    [] p = FileN -> Doc(pages)
                    [] OTHER -> Documents[p]]
    /\ db = [d \in Dirs |-> NoDb]
    /\ cwd = Box
    /\ sandbox_root = Box
    /\ proc_cwd = Box
    /\ variables = NoVariables
    /\ out = <<>>
    /\ status = "none"
    /\ err = ""
    /\ last = [stmt |-> NoStatement, pre |-> NoVariables, out |-> <<>>]
    /\ nstmts = 0
    /\ NoHost

\* prepare_semantic_database(F); before keeps what the calls gave from the
\* live documents when no index existed yet
Prepare ==
    \E F \in IndexFolders :
        /\ \A G \in Dirs \ {F} : ~db[G].dir
        /\ db' = [db EXCEPT ![F] = prepare_semantic_database(F)]
        /\ before' = IF db[F].dir THEN before
                     ELSE [taken |-> TRUE, folder |-> F, index |-> db'[F],
                           results |-> [c \in Calls |-> CallResult(c)]]
        /\ call' = ACall("prepare", F, NoneV)
        /\ UNCHANGED <<fs, interpVars, threadVars, budgetVars, laterVars>>

\* the host deletes a document
Delete ==
    \E p \in Deletable :
        /\ IsFile(p)
        /\ fs' = [fs EXCEPT ![p] = NoFile]
        /\ call' = ACall("delete", p, NoneV)
        /\ UNCHANGED <<db, before, interpVars, threadVars, budgetVars, laterVars>>

\* the host makes an object and calls one method of it
Returned == call.op \in {"read", "head", "contains", "search"}
CallMethod ==
    /\ ~Returned
    /\ \E c \in Calls \cup ReadCalls :
          call' = [op |-> c.op, path |-> c.path, arg |-> c.arg, result |-> CallResult(c)]
    /\ UNCHANGED <<fs, db, before, interpVars, threadVars, budgetVars, laterVars>>

\* the host has used the result of its call
Return ==
    /\ Returned
    /\ call' = NoCall
    /\ UNCHANGED <<fs, db, before, interpVars, threadVars, budgetVars, laterVars>>

NextIndex == Prepare \/ Delete \/ CallMethod \/ Return

SpecIndex == InitIndex /\ [][NextIndex]_vars

\* the documents F holds are all deleted and its index is the one prepare
\* wrote when `before` was taken
ServedFromIndex(F) ==
    /\ before.taken
    /\ before.folder = F
    /\ db[F] = before.index
    /\ \A G \in Dirs \ {F} : ~db[G].dir
    /\ \A p \in FilePaths : IsPrefix(F, p) => ~IsFile(p)

\* the calls of C4 on F: the methods of the files under F that prepare
\* indexed, and Directory(F).search
CallsOn(F) ==
    {c \in Calls : IF c.op = "search" THEN c.path = F
                   ELSE IsPrefix(F, c.path) /\ before.results[c].ok}

\* C4: for every file p under a folder F that prepare can index, read(),
\* head(), contains(t) and Directory(F).search(name), served from the
\* prepared index after every document under F is deleted, give the results
\* the same calls gave from the live documents before prepare.
C4_IndexServesLiveResults ==
    \A F \in IndexFolders :
        ServedFromIndex(F) =>
            \A c \in CallsOn(F) : CallResult(c) = before.results[c]

\* the distinct values of a sequence in the order of their first occurrence
RECURSIVE Distinct(_)
Distinct(s) ==
    IF s = <<>> THEN <<>>
    ELSE IF Contains(Front(s), Last(s)) THEN Distinct(Front(s))
    ELSE Append(Distinct(Front(s)), Last(s))

\* the values of P: P itself when it is an integer, its items when a list
ValuesOf(P) == IF P.k = "list" THEN P.e ELSE <<P>>

\* read(pages=P) was called on a file that has pages, P an integer or a
\* list of integers
ReadPagesCalled ==
    /\ call.op = "read"
    /\ call.arg # NoneV
    /\ \A i \in DOMAIN ValuesOf(call.arg) : ValuesOf(call.arg)[i].k = "int"
    /\ File_chunks(call.path).ok

\* C6: for a file with N pages, read(pages=P) with P an integer or a list
\* of integers returns the page strings of the distinct values of P in
\* order of first occurrence; if any value of P is below 1 or above N the
\* call fails with a runtime error and returns nothing.
C6_ReadPages ==
    ReadPagesCalled =>
        \A c \in {File_chunks(call.path)}, P \in {ValuesOf(call.arg)} :
            IF \E i \in DOMAIN P : P[i].i < 1 \/ P[i].i > Len(c.chunks)
            THEN /\ ~call.result.ok
                 /\ call.result.err # ""
                 /\ call.result.val = NoneV
            ELSE /\ call.result.ok
                 /\ call.result.val.k = "list"
                 /\ Len(call.result.val.e) = Len(Distinct(P))
                 /\ \A i \in DOMAIN Distinct(P) :
                        call.result.val.e[i] = TextV(c.chunks[Distinct(P)[i].i])

\* read(pages=[2, 1, 2]) returned page 2 then page 1 of a file whose first
\* two pages differ
C6_ReadPagesWitness ==
    /\ ReadPagesCalled
    /\ call.arg = ListV(<<IntV(2), IntV(1), IntV(2)>>)
    /\ call.result.ok
    /\ Len(call.result.val.e) = 2
    /\ call.result.val.e[1] # call.result.val.e[2]

-----------------------------------------------------------------------------
(* Calls of execute_fdsl on the threads of one process. sys.stdout belongs *)
(* to the process: redirect_stdout saves it and sets it on entry, puts the *)
(* saved one back on exit; print writes to the sys.stdout of the moment.   *)
(* A print writes its line in one step here; CPython writes it in pieces.  *)

Threads == 1..NThreads
\* the StringIO `output` of the call on thread t
Sink(t) == "output" \o ToString(t)
\* the k-th line of the script of thread t: print(t, k)
Line(t, k) == _builtin_print(<<IntV(t), IntV(k)>>, <<>>).out
RECURSIVE LinesUpTo(_, _)
LinesUpTo(t, k) == IF k = 0 THEN <<>> ELSE LinesUpTo(t, k - 1) \o Line(t, k)

InitThreads ==
    /\ NoLater
    /\ fs = Documents
    /\ db = [d \in Dirs |-> NoDb]
    /\ cwd = Box
    /\ sandbox_root = Box
    /\ proc_cwd = Box
    /\ variables = NoVariables
    /\ out = <<>>
    /\ status = "none"
    /\ err = ""
    /\ last = [stmt |-> NoStatement, pre |-> NoVariables, out |-> <<>>]
    /\ nstmts = 0
    /\ call = NoCall
    /\ before = NoBefore
    /\ run = NoRun
    /\ sys_stdout = "console"
    /\ console = <<>>
    /\ threads = [t \in Threads |->
                    [pc |-> "start", old |-> "console", printed |-> 0,
                     output |-> <<>>, returned |-> <<>>]]

\* redirect_stdout.__enter__
Enter ==
    \E t \in Threads :
        /\ threads[t].pc = "start"
        /\ threads' = [threads EXCEPT ![t].pc = "running", ![t].old = sys_stdout]
        /\ sys_stdout' = Sink(t)
        /\ UNCHANGED <<console, worldVars, interpVars, indexVars, budgetVars, laterVars>>

\* the next print of the script of thread t
Write ==
    \E t \in Threads :
        /\ threads[t].pc = "running"
        /\ threads[t].printed < NLines
        /\ IF sys_stdout = "console"
           THEN /\ console' = console \o Line(t, threads[t].printed + 1)
                /\ threads' = [threads EXCEPT ![t].printed = @ + 1]
           ELSE /\ console' = console
                /\ threads' =
                     [u \in Threads |->
                        [threads[u] EXCEPT
                           !.printed = IF u = t THEN @ + 1 ELSE @,
                           !.output = IF Sink(u) = sys_stdout
                                      THEN @ \o Line(t, threads[t].printed + 1)
                                      ELSE @]]
        /\ UNCHANGED <<sys_stdout, worldVars, interpVars, indexVars, budgetVars, laterVars>>

\* redirect_stdout.__exit__ at the end of the script
Exit ==
    \E t \in Threads :
        /\ threads[t].pc = "running"
        /\ threads[t].printed = NLines
        /\ sys_stdout' = threads[t].old
        /\ threads' = [threads EXCEPT ![t].pc = "exited"]
        /\ UNCHANGED <<console, worldVars, interpVars, indexVars, budgetVars, laterVars>>

\* return output.getvalue()
Getvalue ==
    \E t \in Threads :
        /\ threads[t].pc = "exited"
        /\ threads' = [threads EXCEPT ![t].pc = "returned", ![t].returned = threads[t].output]
        /\ UNCHANGED <<sys_stdout, console, worldVars, interpVars, indexVars, budgetVars, laterVars>>

NextThreads == Enter \/ Write \/ Exit \/ Getvalue

SpecThreads == InitThreads /\ [][NextThreads]_vars

\* C3: when N execute_fdsl calls run concurrently on different threads,
\* each call returns exactly the lines printed by its own script, in program
\* order, with no line of another call mixed in and none of its own missing;
\* the calls do not share an output sink.
C3_OutputIsolation ==
    \A t \in Threads :
        /\ threads[t].pc = "returned" => threads[t].returned = LinesUpTo(t, NLines)
        /\ IsPrefix(threads[t].output, LinesUpTo(t, NLines))

-----------------------------------------------------------------------------
(* A host that calls execute_fdsl on a script of one loop,                 *)
(*     for f in [1:n]:                                                     *)
(* with or without a `timeout` keyword. The clock is in milliseconds and   *)
(* an iteration of the loop takes one or two of them.                      *)

\* the budgets a host asks for: none, or one millisecond
Timeouts == {NoneV, IntV(1)}
\* the keywords of execute_fdsl besides `code`
Keywords == {"cwd", "sandbox_root"}

InitBudget ==
    /\ NoLater
    /\ fs = Documents
    /\ db = [d \in Dirs |-> NoDb]
    /\ cwd = Box
    /\ sandbox_root = Box
    /\ proc_cwd = Box
    /\ variables = NoVariables
    /\ out = <<>>
    /\ status = "none"
    /\ err = ""
    /\ last = [stmt |-> NoStatement, pre |-> NoVariables, out |-> <<>>]
    /\ nstmts = 0
    /\ call = NoCall
    /\ before = NoBefore
    /\ sys_stdout = "console"
    /\ threads = <<>>
    /\ console = <<>>
    /\ run = [pc |-> "idle", timeout |-> NoneV, iters |-> 0, i |-> 0, now |-> 0,
              outcome |-> "none", phase |-> "none"]

\* the call binds its keywords before any statement runs: a keyword the
\* signature does not have is a TypeError of the call
CallExecute ==
    /\ run.pc = "idle"
    /\ \E timeout \in Timeouts, n \in 1..MaxIter :
          run' = IF timeout # NoneV /\ "timeout" \notin Keywords
                 THEN [run EXCEPT !.pc = "ended", !.timeout = timeout, !.iters = n,
                                  !.outcome = "TypeError", !.phase = "call"]
                 ELSE [run EXCEPT !.pc = "loop", !.timeout = timeout, !.iters = n]
    /\ UNCHANGED <<worldVars, interpVars, indexVars, threadVars, laterVars>>

\* one iteration of the for statement: bind the loop variable, run the body
LoopIteration ==
    /\ run.pc = "loop"
    /\ run.i < run.iters
    /\ \E ms \in 1..2 : run' = [run EXCEPT !.i = @ + 1, !.now = @ + ms]
    /\ variables' = [variables EXCEPT !["f"] = IntV(run.i + 1)]
    /\ UNCHANGED <<worldVars, out, status, err, last, nstmts, cwd, sandbox_root,
                   proc_cwd, indexVars, threadVars, laterVars>>

\* the loop is over: execute_fdsl returns the output
Complete ==
    /\ run.pc = "loop"
    /\ run.i = run.iters
    /\ run' = [run EXCEPT !.pc = "ended", !.outcome = "completed", !.phase = "return"]
    /\ UNCHANGED <<worldVars, interpVars, indexVars, threadVars, laterVars>>

NextBudget == CallExecute \/ LoopIteration \/ Complete

SpecBudget == InitBudget /\ [][NextBudget]_vars

\* C10: when execute_fdsl runs a script with a timeout and the evaluation
\* of the script is still running after the deadline (its loop has more
\* iterations than the budget has milliseconds), the run ends with a timeout
\* failure raised at an evaluator checkpoint, whose phase names the
\* evaluator loop; it does not run to completion.
C10_TimeoutFailure ==
    (run.pc = "ended" /\ run.timeout # NoneV /\ run.iters > run.timeout.i) =>
        /\ run.outcome = "timeout"
        /\ run.phase = "evaluator loop"

-----------------------------------------------------------------------------
(* ExecutionBudget (execution_budget.py). A host makes budgets and polls   *)
(* them while time.monotonic() advances; the clock counts ticks.           *)

\* the timeouts a host hands to ExecutionBudget(timeout_s)
TimeoutArgs ==
    {NoneV, BoolV(TRUE), StrV("a"), IntV(-1)} \cup {IntV(n) : n \in {0, 1, MaxClock}}
\* the phases a caller names
Phases == {"evaluator.loop", "semantic.prepare.file"}

\* ExecutionBudget.__init__ at the time now
ExecutionBudget(timeout_s, now) ==
    IF timeout_s = NoneV
    THEN [made |-> TRUE, timeout |-> NoneV, start |-> now, deadline |-> NoneV]
    ELSE IF timeout_s.k = "bool" \/ timeout_s.k \notin {"int", "float"}
    THEN [made |-> FALSE, error |-> "TypeError: timeout_s must be a number or None"]
    ELSE IF timeout_s.i < 0
    THEN [made |-> FALSE,
          error |-> "ValueError: timeout_s must be greater than or equal to 0"]
    ELSE [made |-> TRUE, timeout |-> timeout_s, start |-> now,
          deadline |-> IntV(now + timeout_s.i)]

\* what a check that returns leaves: no failure
NotRaised == [raised |-> FALSE, phase |-> "", elapsed_s |-> 0]
\* check with `now < deadline` for `now <= deadline`
check_before_deadline(b, phase, now) ==
    IF b.deadline = NoneV THEN NotRaised
    ELSE IF now < b.deadline.i THEN NotRaised
    ELSE [raised |-> TRUE, phase |-> phase, elapsed_s |-> now - b.start]
\* ExecutionBudget.check(phase) at the time now: the DSLTimeoutError it
\* raises, if any
check(b, phase, now) ==
    IF b.deadline = NoneV THEN NotRaised
    ELSE IF now <= b.deadline.i THEN NotRaised
    ELSE [raised |-> TRUE, phase |-> phase, elapsed_s |-> now - b.start]

\* the groups a host of budgets leaves alone
notClock == <<worldVars, interpVars, indexVars, threadVars, budgetVars, captureVars, restVars>>

InitClock ==
    /\ fs = Documents
    /\ db = [d \in Dirs |-> IF d = Box THEN prepare_semantic_database(Box) ELSE NoDb]
    /\ IdleInterpreter
    /\ call = NoCall
    /\ before = NoBefore
    /\ sys_stdout = "console"
    /\ threads = <<>>
    /\ console = <<>>
    /\ run = NoRun
    /\ NoLater

\* budget = ExecutionBudget(timeout_s)
NewBudget ==
    /\ \E timeout_s \in TimeoutArgs : budget' = ExecutionBudget(timeout_s, clock)
    /\ probe' = NoProbe
    /\ UNCHANGED <<clock, notClock>>

\* time passes
Tick ==
    /\ clock < MaxClock
    /\ clock' = clock + 1
    /\ UNCHANGED <<budget, probe, notClock>>

\* budget.check(phase); `earlier` tells that a check of this budget raised
\* before this one
CheckBudget ==
    /\ budget.made
    /\ \E phase \in Phases :
          probe' = [op |-> "check", given |-> phase, at |-> clock,
                    failure |-> check(budget, phase, clock),
                    earlier |-> probe.op = "check" /\ (probe.failure.raised \/ probe.earlier)]
    /\ UNCHANGED <<clock, budget, notClock>>

-----------------------------------------------------------------------------
(* Extraction and index lookups under a budget (semantic.py). A call runs  *)
(* from the time s.now; every budget check takes one tick. s.log keeps the *)
(* timeout failures the checks of the call raised, in order.               *)

\* _check_budget(budget, phase): no check when the caller gave no budget
_check_budget(b, phase, now) == IF ~b.made THEN NotRaised ELSE check(b, phase, now)

\* how a call ends: by a value, or by a raised DSLTimeoutError, or by
\* another DSLRuntimeError
Returns(v, s) ==
    [kind |-> "value", v |-> v, phase |-> "", elapsed_s |-> 0, message |-> "", s |-> s]
RaisesTimeout(f, s) ==
    [kind |-> "timeout", v |-> <<>>, phase |-> f.phase, elapsed_s |-> f.elapsed_s,
     message |-> "Timed out in " \o f.phase, s |-> s]
RaisesError(message, s) ==
    [kind |-> "error", v |-> <<>>, phase |-> "", elapsed_s |-> 0, message |-> message, s |-> s]

\* the checks a loop makes, one phase after the other: the first that
\* raises ends it
RECURSIVE Poll(_, _, _)
Poll(b, phases, s) ==
    IF phases = <<>> THEN Returns(<<>>, s)
    ELSE IF _check_budget(b, Head(phases), s.now).raised
    THEN RaisesTimeout(_check_budget(b, Head(phases), s.now),
                       [s EXCEPT !.log = Append(@, _check_budget(b, Head(phases), s.now))])
    ELSE Poll(b, Tail(phases), [s EXCEPT !.now = @ + 1])

\* n times the same phase
RECURSIVE Times(_, _)
Times(n, phase) == IF n = 0 THEN <<>> ELSE <<phase>> \o Times(n - 1, phase)
\* a phase for each group, then n[i] times the inner phase
RECURSIVE Nested(_, _, _)
Nested(groups, outer, inner) ==
    IF groups = <<>> THEN <<>>
    ELSE <<outer>> \o Times(Head(groups), inner) \o Nested(Tail(groups), outer, inner)

\* a loop of checks, then the value
Polled(b, phases, v, s) ==
    The({IF r.kind = "timeout" THEN r ELSE Returns(v, r.s) : r \in {Poll(b, phases, s)}})

\* _read_text_chunks under a budget: a check for each chunk of 80 lines
_read_text_chunks_polled(doc, b, s) ==
    Polled(b, Times((doc.lines + TEXT_CHUNK_LINES - 1) \div TEXT_CHUNK_LINES,
                    "semantic.read_text.chunk"), "text", s)

\* _read_docx_xml_fallback: the archive is read inside the try, the nodes
\* are polled after it
_read_docx_xml_fallback(doc, b, s) ==
    IF ~doc.zip THEN _read_text_chunks_polled(doc, b, s)
    ELSE Polled(b, Times(doc.nodes[1], "semantic.read_docx_xml.node"), "docx xml", s)

\* _read_docx_pages without `except DSLTimeoutError: raise`
_read_docx_pages_except_Exception(doc, b, s) ==
    IF ~doc.opens THEN _read_docx_xml_fallback(doc, b, s)
    ELSE The({IF r.kind = "timeout" THEN _read_docx_xml_fallback(doc, b, r.s) ELSE r :
                r \in {Polled(b, Times(doc.parts[1], "semantic.read_docx.paragraph"),
                              "docx", s)}})

\* _read_docx_pages
_read_docx_pages(doc, b, s) ==
    IF ~doc.opens THEN _read_docx_xml_fallback(doc, b, s)
    ELSE Polled(b, Times(doc.parts[1], "semantic.read_docx.paragraph"), "docx", s)

\* _read_pptx_xml_fallback
_read_pptx_xml_fallback(doc, b, s) ==
    IF ~doc.zip THEN _read_text_chunks_polled(doc, b, s)
    ELSE Polled(b, Nested(doc.nodes, "semantic.read_pptx_xml.slide",
                          "semantic.read_pptx_xml.node"), "pptx xml", s)

\* _read_pptx_pages
_read_pptx_pages(doc, b, s) ==
    IF ~doc.opens THEN _read_pptx_xml_fallback(doc, b, s)
    ELSE Polled(b, Nested(doc.parts, "semantic.read_pptx.slide",
                          "semantic.read_pptx.shape"), "pptx", s)

\* _extract_pages of a .docx or a .pptx document
_extract_pages_polled(doc, b, s) ==
    IF doc.suffix = ".docx" THEN _read_docx_pages(doc, b, s)
    ELSE _read_pptx_pages(doc, b, s)
\* [file_path, file_path.parent, *file_path.parents]
RECURSIVE Parents(_)
Parents(path) == IF path = <<>> THEN <<>> ELSE <<Front(path)>> \o Parents(Front(path))
Candidates(path) ==
    <<path, IF path = <<>> THEN path ELSE Front(path)>> \o Parents(path)

\* _find_indexed_root under a budget: a check for each candidate
RECURSIVE FindIndexedRoot(_, _, _)
FindIndexedRoot(candidates, b, s) ==
    IF candidates = <<>> THEN RaisesError("No semantic index found", s)
    ELSE IF _check_budget(b, "semantic.find_indexed_root", s.now).raised
    THEN Poll(b, <<"semantic.find_indexed_root">>, s)
    ELSE IF Head(candidates) \in Dirs /\ db[Head(candidates)].dir
    THEN Returns(Head(candidates), [s EXCEPT !.now = @ + 1])
    ELSE FindIndexedRoot(Tail(candidates), b, [s EXCEPT !.now = @ + 1])

\* _load_record_indexes under a budget: a check for every 512 paths of
\* pages_by_path, then of positions_by_path
PollsOf(n) == (n + 511) \div 512
_load_record_indexes(records, b, s) ==
    Poll(b, Times(PollsOf(Cardinality(indexed_paths(records))), "semantic.load_records.pages")
            \o Times(PollsOf(Cardinality(indexed_paths(records))),
                     "semantic.load_records.positions"), s)

\* get_file_pages_from_database under a budget
FilePagesPolled(file_path, b, s) ==
    The({IF found.kind = "timeout" THEN found
         ELSE IF found.kind = "error" THEN Returns(None, found.s)
         ELSE IF ~db[found.v].has_records THEN Returns(None, found.s)
         ELSE The({IF loaded.kind = "timeout" THEN loaded
                   ELSE The({IF pages = <<>> THEN Returns(None, loaded.s)
                             ELSE Polled(b, Times(Len(pages), "semantic.file_pages.record"),
                                         Some(TextsOf(pages)), loaded.s) :
                               pages \in {file_pages(db[found.v].records,
                                            SubSeq(file_path, Len(found.v) + 1,
                                                   Len(file_path)))}}) :
                     loaded \in {_load_record_indexes(db[found.v].records, b, found.s)}}) :
           found \in {FindIndexedRoot(Candidates(file_path), b, s)}})

\* get_directory_file_paths_from_database under a budget
DirectoryPathsPolled(directory_path, recursive, b, s) ==
    The({IF found.kind = "timeout" THEN found
         ELSE IF found.kind = "error" THEN Returns(None, found.s)
         ELSE IF ~db[found.v].has_records THEN Returns(None, found.s)
         ELSE The({IF loaded.kind = "timeout" THEN loaded
                   ELSE Polled(b, Times(Cardinality(indexed_paths(db[found.v].records)),
                                        "semantic.directory_paths.record"),
                               Some(SortedPaths(paths_under(found.v,
                                      SubSeq(directory_path, Len(found.v) + 1,
                                             Len(directory_path)), recursive))),
                               loaded.s) :
                     loaded \in {_load_record_indexes(db[found.v].records, b, found.s)}}) :
           found \in {FindIndexedRoot(Candidates(directory_path), b, s)}})

\* callee(*args, **kwargs) in Interpreter._eval_expr: a DSLRuntimeError, a
\* DSLTimeoutError among them, is raised again as it is
Call_reraise(r) ==
    IF r.kind \in {"timeout", "error"} THEN r
    ELSE Returns(r.v, r.s)

\* the documents a host extracts: whether python-docx or python-pptx opens
\* the file, whether it is a zip archive, the paragraphs (docx) or the
\* shapes of each slide (pptx), the text nodes of its XML, its text lines
OfficeDocs ==
    [suffix : {".docx", ".pptx"}, opens : BOOLEAN, zip : BOOLEAN,
     parts : {<<2>>, <<1, 0>>}, nodes : {<<1>>}, lines : {0, 1}]
LookupPaths == {FileA, FileN, FileP, Box, Sub}

\* the budget a host passes to a call: the one it made, or none
BudgetArgs == {NoBudget} \cup (IF budget.made THEN {budget} ELSE {})

\* pages = _extract_pages(path, budget=budget), directly or as the callee
\* of a script's call
Extract ==
    /\ clock < MaxClock
    /\ \E doc \in OfficeDocs, b \in BudgetArgs, script \in BOOLEAN :
         \E r \in {_extract_pages_polled(doc, b, [now |-> clock, log |-> <<>>])} :
            /\ probe' = [op |-> "extract", doc |-> doc, budget |-> b,
                         r |-> IF script THEN Call_reraise(r) ELSE r]
            /\ clock' = r.s.now
    /\ UNCHANGED <<budget, notClock>>

\* get_file_pages_from_database(path, budget=budget) or
\* get_directory_file_paths_from_database(path, recursive, budget=budget)
Lookup ==
    /\ clock < MaxClock
    /\ \E path \in LookupPaths, b \in BudgetArgs, recursive \in BOOLEAN :
         \E r \in {IF path \in Dirs
                   THEN DirectoryPathsPolled(path, recursive, b, [now |-> clock, log |-> <<>>])
                   ELSE FilePagesPolled(path, b, [now |-> clock, log |-> <<>>])} :
            /\ probe' = [op |-> "lookup", path |-> path, budget |-> b, r |-> r]
            /\ clock' = r.s.now
    /\ UNCHANGED <<budget, notClock>>

NextClock == NewBudget \/ Tick \/ CheckBudget \/ Extract \/ Lookup

SpecClock == InitClock /\ [][NextClock]_vars

\* C11: for a budget created with timeout None, check(phase) never raises;
\* for a budget with a timeout, check(phase) raises a timeout failure that
\* carries the elapsed time and the given phase exactly when the monotonic
\* time is past the deadline, so once a check has raised every later check
\* on the same budget raises too.
C11_BudgetCheck ==
    probe.op = "check" =>
        /\ budget.timeout = NoneV => ~probe.failure.raised
        /\ budget.timeout # NoneV =>
              /\ probe.failure.raised <=> probe.at > budget.start + budget.timeout.i
              /\ probe.failure.raised =>
                    /\ probe.failure.elapsed_s = probe.at - budget.start
                    /\ probe.failure.phase = probe.given
        /\ probe.earlier => probe.failure.raised

\* a check raised after an earlier check of the same budget had raised
C11_BudgetCheckWitness ==
    /\ probe.op = "check"
    /\ probe.earlier
    /\ probe.failure.raised
    /\ probe.failure.elapsed_s > budget.timeout.i

\* C12: a timeout failure raised by a budget check inside page extraction,
\* an extraction fallback or an index lookup always reaches the caller as
\* that same timeout failure (same elapsed time and phase); it is never
\* swallowed into a fallback extraction or a None result, nor converted
\* into an ordinary runtime error.
C12_TimeoutPropagates ==
    (probe.op \in {"extract", "lookup"} /\ probe.r.s.log # <<>>) =>
        /\ probe.r.kind = "timeout"
        /\ Len(probe.r.s.log) = 1
        /\ probe.r.phase = probe.r.s.log[1].phase
        /\ probe.r.elapsed_s = probe.r.s.log[1].elapsed_s

\* the paragraphs of a document that python-docx opens ran past the
\* deadline, and the caller got the timeout of that loop
C12_TimeoutPropagatesWitness ==
    /\ probe.op = "extract"
    /\ probe.doc.suffix = ".docx"
    /\ probe.doc.opens
    /\ probe.r.kind = "timeout"
    /\ probe.r.phase = "semantic.read_docx.paragraph"
    /\ probe.r.elapsed_s > 0

-----------------------------------------------------------------------------
(* execute_fdsl seen by its caller: the script runs inside                 *)
(* `with redirect_stdout(output)`, and the call ends by `return            *)
(* output.getvalue()` or by the failure of the script.                     *)

InitCapture ==
    /\ fs = Documents
    /\ db = [d \in Dirs |-> NoDb]
    /\ cwd = Box
    /\ sandbox_root = Box
    /\ proc_cwd = Box
    /\ variables = NoVariables
    /\ out = <<>>
    /\ status = "running"
    /\ err = ""
    /\ last = [stmt |-> NoStatement, pre |-> NoVariables, out |-> <<>>]
    /\ nstmts = 0
    /\ NoHost

\* the end of the call: the program is over and the output is returned, or
\* a statement raised and the DSLRuntimeError leaves execute_fdsl; `output`
\* is a local of the call and the failure has no attribute for it
LeaveExecute ==
    /\ caller = NoCaller
    /\ status \in {"running", "error"}
    /\ caller' = IF status = "running"
                 THEN [kind |-> "returned", output |-> out, message |-> ""]
                 ELSE [kind |-> "raised", output |-> <<>>, message |-> err]
    /\ status' = IF status = "running" THEN "done" ELSE "raised"
    /\ UNCHANGED <<worldVars, cwd, sandbox_root, proc_cwd, variables, out, err, last,
                   nstmts, indexVars, threadVars, budgetVars, clockVars, restVars>>

NextCapture == ExecExprStatement \/ LeaveExecute

SpecCapture == InitCapture /\ [][NextCapture]_vars

\* C13: when a script run by execute_fdsl fails after having printed some
\* lines, those lines are not lost: they are retained in the captured
\* output available to the caller (and carried on the failure value when
\* the failure is a timeout).
C13_PartialOutputKept ==
    (caller.kind = "raised" /\ out # <<>>) => caller.output = out

-----------------------------------------------------------------------------
(* The embedding (semantic.py:492-509).  A vector has EMBEDDING_DIM        *)
(* components; the model keeps the components that are not zero.  A        *)
(* vector of the code is counts / sqrt(norm2): the model keeps the counts  *)
(* in lowest terms and norm2, and compares scores exactly, where the code  *)
(* compares floats.  hash() of a str is keyed by a secret that the         *)
(* interpreter draws when the process starts (PYTHONHASHSEED); the model   *)
(* keys a polynomial hash with the seed of the process.                    *)

EMBEDDING_DIM == 256
HashModulus == 2^16
Seeds == {0, 1}

Alphabet ==
    <<"a", "b", "c", "d", "e", "f", "i", "l", "m", "n", "o", "p", "s", "t", "u", "w",
      "x", "y">>
CharCode(c) == CHOOSE i \in DOMAIN Alphabet : Alphabet[i] = c

\* str.lower()
RECURSIVE Lower(_)
Lower(t) ==
    IF t = <<>> THEN <<>>
    ELSE <<IF Head(t) = "F" THEN "f" ELSE Head(t)>> \o Lower(Tail(t))

\* re.findall(r"\w+", text): the maximal runs of word characters
IsWord(c) == c \in Range(Alphabet)
RECURSIVE WordsFrom(_, _)
WordsFrom(acc, t) ==
    IF t = <<>> THEN (IF acc = <<>> THEN <<>> ELSE <<acc>>)
    ELSE IF IsWord(Head(t)) THEN WordsFrom(Append(acc, Head(t)), Tail(t))
    ELSE (IF acc = <<>> THEN <<>> ELSE <<acc>>) \o WordsFrom(<<>>, Tail(t))
findall_words(t) == WordsFrom(<<>>, t)

\* hash(token) in a process whose hash secret is seed
RECURSIVE HashFrom(_, _)
HashFrom(h, token) ==
    IF token = <<>> THEN h
    ELSE HashFrom((h * 33 + CharCode(Head(token))) % HashModulus, Tail(token))
hash(seed, token) == HashFrom(seed * 97 + 7, token)

\* the component that a token increments: hash(token) % EMBEDDING_DIM
component(seed, token) == hash(seed, token) % EMBEDDING_DIM

RECURSIVE Gcd(_, _)
Gcd(a, b) == IF b = 0 THEN a ELSE Gcd(b, a % b)
RECURSIVE GcdOver(_, _)
GcdOver(f, S) ==
    IF S = {} THEN 0
    ELSE LET c == CHOOSE x \in S : TRUE IN Gcd(f[c], GcdOver(f, S \ {c}))
RECURSIVE SumOver(_, _)
SumOver(f, S) ==
    IF S = {} THEN 0
    ELSE LET c == CHOOSE x \in S : TRUE IN f[c] + SumOver(f, S \ {c})

\* vec / norm: the counts in lowest terms, and the sum of their squares
Normalised(counts) ==
    IF DOMAIN counts = {} THEN [counts |-> counts, norm2 |-> 0]
    ELSE The({[counts |-> [c \in DOMAIN counts |-> counts[c] \div g],
               norm2 |-> SumOver([c \in DOMAIN counts |->
                                     (counts[c] \div g) * (counts[c] \div g)],
                                 DOMAIN counts)] :
                g \in {GcdOver(counts, DOMAIN counts)}})

\* _encode_texts, for one text: each token adds 1.0 to its component
CountsOf(seed, tokens) ==
    [c \in {component(seed, tokens[i]) : i \in DOMAIN tokens} |->
        Cardinality({i \in DOMAIN tokens : component(seed, tokens[i]) = c})]
_encode_text(seed, text) == Normalised(CountsOf(seed, findall_words(Lower(text))))
RECURSIVE _encode_texts(_, _)
_encode_texts(seed, texts) ==
    IF texts = <<>> THEN <<>>
    ELSE <<_encode_text(seed, Head(texts))>> \o _encode_texts(seed, Tail(texts))

\* _dot(a, b) is num / sqrt(den2)
_dot(a, b) ==
    [num |-> SumOver([c \in DOMAIN a.counts \cap DOMAIN b.counts |->
                         a.counts[c] * b.counts[c]],
                     DOMAIN a.counts \cap DOMAIN b.counts),
     den2 |-> IF a.norm2 * b.norm2 = 0 THEN 1 ELSE a.norm2 * b.norm2]
\* s < t and s = t on scores, none of which is below zero
ScoreLess(s, t) == s.num * s.num * t.den2 < t.num * t.num * s.den2
ScoreEqual(s, t) == s.num * s.num * t.den2 = t.num * t.num * s.den2

\* prepare_semantic_database, 76-78: the text that is embedded for a record
embedding_input(record) ==
    <<"F", "i", "l", "e", ":", " ">> \o PosixChars(record.relative_path)
    \o (IF record.text = <<>> THEN <<>> ELSE <<"\n">> \o record.text)
RECURSIVE embedding_inputs(_)
embedding_inputs(records) ==
    IF records = <<>> THEN <<>>
    ELSE <<embedding_input(Head(records))>> \o embedding_inputs(Tail(records))

\* _load_record_indexes_cached: positions_by_path[rel], the (index, page)
\* of the records of rel, sorted by page
RECURSIVE PositionsFrom(_, _, _)
PositionsFrom(records, rel, index) ==
    IF index > Len(records) THEN <<>>
    ELSE (IF records[index].relative_path = rel
          THEN <<[index |-> index, page |-> records[index].page]>> ELSE <<>>)
         \o PositionsFrom(records, rel, index + 1)
record_positions(records, rel) == SortByPage(PositionsFrom(records, rel, 1))

\* scored_pages of semantic_search_file_pages, 110-116: a record without a
\* vector is skipped
RECURSIVE scored_pages(_, _, _)
scored_pages(positions, rows, query_vector) ==
    IF positions = <<>> THEN <<>>
    ELSE (IF Head(positions).index > Len(rows) THEN <<>>
          ELSE <<[score |-> _dot(query_vector, rows[Head(positions).index]),
                  page |-> Head(positions).page]>>)
         \o scored_pages(Tail(positions), rows, query_vector)

\* list.sort(key=score, reverse=True): stable, so items of equal score
\* keep the order they had
RECURSIVE InsertByScoreAscending(_, _)
InsertByScoreAscending(sorted, item) ==
    IF sorted = <<>> THEN <<item>>
    ELSE IF ~ScoreLess(item.score, Last(sorted).score) THEN Append(sorted, item)
    ELSE Append(InsertByScoreAscending(Front(sorted), item), Last(sorted))
RECURSIVE InsertByScore(_, _)
InsertByScore(sorted, item) ==
    IF sorted = <<>> THEN <<item>>
    ELSE IF ~ScoreLess(Last(sorted).score, item.score) THEN Append(sorted, item)
    ELSE Append(InsertByScore(Front(sorted), item), Last(sorted))
RECURSIVE SortByScore(_)
SortByScore(items) ==
    IF items = <<>> THEN <<>> ELSE InsertByScore(SortByScore(Front(items)), Last(items))

RECURSIVE PagesOf(_)
PagesOf(items) == IF items = <<>> THEN <<>> ELSE <<Head(items).page>> \o PagesOf(Tail(items))

Found(pages) == [ok |-> TRUE, pages |-> pages, err |-> ""]
SearchError(message) == [ok |-> FALSE, pages |-> <<>>, err |-> message]

\* semantic_search_file_pages(file_path, query, top_k) in a process whose
\* hash secret is seed; query is a str
semantic_search_file_pages(seed, file_path, query, top_k) ==
    IF Strip(query) = <<>> THEN SearchError("query must be a non-empty string")
    ELSE IF top_k < 1 THEN SearchError("top_k must be a positive integer")
    ELSE IF ~_find_indexed_root(file_path).ok THEN SearchError("No semantic index found")
    ELSE IF \E root \in {_find_indexed_root(file_path).root} :
               ~vectors[root].exists \/ ~db[root].has_records
    THEN SearchError("No prepared semantic index collection found")
    ELSE The({Found(SubSeq(sorted, 1, IF top_k < Len(sorted) THEN top_k ELSE Len(sorted))) :
                sorted \in {PagesOf(SortByScore(
                    The({scored_pages(
                            record_positions(db[root].records,
                                             SubSeq(file_path, Len(root) + 1, Len(file_path))),
                            vectors[root].rows,
                            _encode_text(seed, Strip(query))) :
                         root \in {_find_indexed_root(file_path).root}})))}})

-----------------------------------------------------------------------------
(* Processes that prepare the index of Box and search in it.  Each process *)
(* has its own hash secret.  prepare_semantic_database reads the           *)
(* documents, then _write_faiss_database writes records.json, then         *)
(* vectors.json, then the marker file: three writes, between which other   *)
(* processes run and at which the process can be stopped.  vectors[d].seed *)
(* records the hash secret of the process that wrote the file.  A search   *)
(* is one step, and its caller takes the pages before anything else        *)
(* happens: hits describes a search over the files as they are.            *)

Procs == {"p", "q"}
MaxTopK == 3
Queries == {<<"b">>, <<"n">>, <<" ">>}
SearchFiles == {FileA, FileN}

notVectors ==
    <<interpVars, indexVars, threadVars, budgetVars, clockVars, captureVars, dirVars,
      parseVars, moreVars>>

\* the documents under Box
Content == [p \in SearchFiles |-> fs[p]]

NoPrepare(seed) ==
    [seed |-> seed, pc |-> "idle", records |-> <<>>, rows |-> <<>>, content |-> <<>>]

\* process "p" has the hash secret 0, process "q" has any
InitVectors ==
    /\ fs = [p \in FilePaths |->
                CASE p = FileA -> Doc(<<<<"a", "\n", "b">>>>)
                  [] p = FileN -> Doc(<<<<"b">>, <<>>, <<"a", "b">>>>)
                  [] OTHER -> Documents[p]]
    /\ db = [d \in Dirs |-> NoDb]
    /\ IdleInterpreter
    /\ call = NoCall
    /\ before = NoBefore
    /\ sys_stdout = "console"
    /\ threads = <<>>
    /\ console = <<>>
    /\ run = NoRun
    /\ NoClock
    /\ caller = NoCaller
    /\ vectors = [d \in Dirs |-> NoFileOfVectors]
    /\ \E seed \in Seeds : procs = [p \in Procs |-> NoPrepare(IF p = "p" THEN 0 ELSE seed)]
    /\ hits = NoHits
    /\ NoDir
    /\ source = NoSource
    /\ NoMore

\* prepare_semantic_database(Box), 45-80, and the first line of
\* _write_faiss_database: the index folder is made, the documents are read
\* and their pages are embedded
ReadDocuments(p) ==
    /\ hits = NoHits
    /\ procs[p].pc = "idle"
    /\ db' = [db EXCEPT ![Box].dir = TRUE]
    /\ \E records \in {PrepareRecords(Box, _iter_document_paths(Box))} :
          procs' = [procs EXCEPT ![p] =
                      [seed |-> procs[p].seed, pc |-> "records", records |-> records,
                       rows |-> _encode_texts(procs[p].seed, embedding_inputs(records)),
                       content |-> Content]]
    /\ UNCHANGED <<fs, vectors, hits, notVectors>>

\* _write_faiss_database, 381: records.json is written
WriteRecords(p) ==
    /\ hits = NoHits
    /\ procs[p].pc = "records"
    /\ db' = [db EXCEPT ![Box] = [dir |-> TRUE, has_records |-> TRUE,
                                   records |-> procs[p].records]]
    /\ procs' = [procs EXCEPT ![p].pc = "vectors"]
    /\ UNCHANGED <<fs, vectors, hits, notVectors>>

\* _write_faiss_database, 382: vectors.json is written
WriteVectors(p) ==
    /\ hits = NoHits
    /\ procs[p].pc = "vectors"
    /\ vectors' = [vectors EXCEPT ![Box] = [exists |-> TRUE, rows |-> procs[p].rows,
                                             seed |-> procs[p].seed]]
    /\ procs' = [procs EXCEPT ![p].pc = "marker"]
    /\ UNCHANGED <<fs, db, hits, notVectors>>

\* _write_faiss_database, 384: the marker is written and prepare returns
WriteMarker(p) ==
    /\ hits = NoHits
    /\ procs[p].pc = "marker"
    /\ procs' = [procs EXCEPT ![p] = NoPrepare(procs[p].seed)]
    /\ UNCHANGED <<fs, db, vectors, hits, notVectors>>

\* the process is stopped during a prepare
Stop(p) ==
    /\ hits = NoHits
    /\ procs[p].pc \in {"records", "vectors", "marker"}
    /\ procs' = [procs EXCEPT ![p] = [NoPrepare(procs[p].seed) EXCEPT !.pc = "stopped"]]
    /\ UNCHANGED <<fs, db, vectors, hits, notVectors>>

\* a document of Box is deleted
Unlink ==
    /\ hits = NoHits
    /\ IsFile(FileA)
    /\ fs' = [fs EXCEPT ![FileA] = NoFile]
    /\ UNCHANGED <<db, vectors, procs, hits, notVectors>>

\* semantic_search_file_pages in process p
Search(p) ==
    /\ hits = NoHits
    /\ procs[p].pc = "idle"
    /\ \E file_path \in SearchFiles, query \in Queries, top_k \in 0..MaxTopK :
          hits' = [made |-> TRUE, seed |-> procs[p].seed, file_path |-> file_path,
                   query |-> query, top_k |-> top_k,
                   r |-> semantic_search_file_pages(procs[p].seed, file_path, query, top_k)]
    /\ UNCHANGED <<fs, db, vectors, procs, notVectors>>

\* the caller of the search takes the pages
TakePages ==
    /\ hits # NoHits
    /\ hits' = NoHits
    /\ UNCHANGED <<fs, db, vectors, procs, notVectors>>

NextVectors ==
    \/ \E p \in Procs : ReadDocuments(p) \/ WriteRecords(p) \/ WriteVectors(p)
                            \/ WriteMarker(p) \/ Stop(p) \/ Search(p)
    \/ Unlink
    \/ TakePages

SpecVectors == InitVectors /\ [][NextVectors]_vars

\* the score that a search gave to a page of its file: the product of the
\* vector of the query and of the vector stored for the record of the page
RecordOfPage(h, page) ==
    CHOOSE i \in DOMAIN db[Box].records :
        /\ db[Box].records[i].relative_path
              = SubSeq(h.file_path, Len(Box) + 1, Len(h.file_path))
        /\ db[Box].records[i].page = page
ScoreOfPage(h, page) ==
    _dot(_encode_text(h.seed, Strip(h.query)), vectors[Box].rows[RecordOfPage(h, page)])
PagesInIndex(h) ==
    {db[Box].records[i].page :
        i \in {j \in DOMAIN db[Box].records :
                 db[Box].records[j].relative_path
                     = SubSeq(h.file_path, Len(Box) + 1, Len(h.file_path))}}

\* C14: semantic_search(query, top_k) returns at most top_k page numbers,
\* all of them pages of that file in the index, ordered by their score
\* against the query from the highest to the lowest, and of two pages of
\* equal score the one with the lower page number comes first.
C14_SearchOrder ==
    (hits.made /\ hits.r.ok) =>
        /\ Len(hits.r.pages) <= hits.top_k
        /\ \A i \in DOMAIN hits.r.pages : hits.r.pages[i] \in PagesInIndex(hits)
        /\ \A i, j \in DOMAIN hits.r.pages :
              i < j =>
                 /\ ~ScoreLess(ScoreOfPage(hits, hits.r.pages[i]),
                               ScoreOfPage(hits, hits.r.pages[j]))
                 /\ ScoreEqual(ScoreOfPage(hits, hits.r.pages[i]),
                               ScoreOfPage(hits, hits.r.pages[j]))
                       => hits.r.pages[i] < hits.r.pages[j]

\* a search returned three pages: the first has a higher page number than
\* the second and a higher score, the other two have the same score
C14_SearchOrderWitness ==
    /\ hits.made
    /\ hits.r.ok
    /\ Len(hits.r.pages) = 3
    /\ hits.r.pages[1] > hits.r.pages[2]
    /\ ScoreLess(ScoreOfPage(hits, hits.r.pages[2]), ScoreOfPage(hits, hits.r.pages[1]))
    /\ ScoreEqual(ScoreOfPage(hits, hits.r.pages[2]), ScoreOfPage(hits, hits.r.pages[3]))

\* the preparations that have embedded the pages they read
Embedded == {p \in Procs : procs[p].pc \in {"vectors", "marker"}}

\* C15: two preparations of a folder with identical content produce
\* identical vectors, and a query embedded in a later run maps each token
\* to the same component as the preparation did, whichever process performs
\* the preparation or the query.
C15_SameVectors ==
    /\ \A p, q \in Embedded :
          procs[p].content = procs[q].content => procs[p].rows = procs[q].rows
    /\ (hits.made /\ hits.r.ok /\ Embedded = {}) =>
          \A token \in Range(findall_words(Lower(Strip(hits.query)))) :
              component(hits.seed, token) = component(vectors[Box].seed, token)

\* C20: the stored records and the stored vectors stay parallel (as many
\* vectors as records, the vector at a position being the embedding of the
\* record at that position) at every moment at which a reader can load
\* both, also while a prepare rewrites the index and after a prepare was
\* stopped part-way.
C20_RecordsAndVectorsParallel ==
    (db[Box].has_records /\ vectors[Box].exists) =>
        /\ Len(vectors[Box].rows) = Len(db[Box].records)
        /\ \E seed \in Seeds :
              vectors[Box].rows = _encode_texts(seed, embedding_inputs(db[Box].records))

-----------------------------------------------------------------------------
(* DSLDirectory.search with its scopes (runtime.py:626-660) *)

\* name_match and content_match of one file of the enumeration
name_match(pattern, base, path) ==
    \/ RegexSearch(pattern, NameChars(Last(path)))
    \/ RegexSearch(pattern, PosixChars(SubSeq(path, Len(base) + 1, Len(path))))
content_match(pattern, path) == File_contains(FileV(path), pattern, <<>>)

RECURSIVE ScopeMatches(_, _, _, _)
ScopeMatches(pattern, scope, base, files) ==
    IF files = <<>> THEN <<>>
    ELSE (IF \/ scope = "name" /\ name_match(pattern, base, Head(files))
             \/ scope = "content" /\ content_match(pattern, Head(files)).val.i = 1
             \/ scope = "both" /\ (\/ name_match(pattern, base, Head(files))
                                   \/ content_match(pattern, Head(files)).val.i = 1)
          THEN <<FileV(Head(files))>> ELSE <<>>)
         \o ScopeMatches(pattern, scope, base, Tail(files))

\* the first file whose contains() fails ends the search with its error
RECURSIVE FirstFailure(_, _)
FirstFailure(pattern, files) ==
    IF files = <<>> THEN ""
    ELSE IF ~content_match(pattern, Head(files)).ok THEN content_match(pattern, Head(files)).err
    ELSE FirstFailure(pattern, Tail(files))

ScopeError == "scope must be one of: 'name', 'content', 'both'"

\* scope is what the body uses after `if in_content: scope = "content"`
search_in_scope(d, pattern, scope, recursive, o) ==
    IF scope \notin {"name", "content", "both"} THEN Fail(ScopeError, o)
    ELSE The({IF scope # "name" /\ FirstFailure(pattern, files) # ""
              THEN Fail(FirstFailure(pattern, files), o)
              ELSE Ok(ListV(ScopeMatches(pattern, scope, d.e, files)), o) :
                files \in {_iter_file_paths(d.e, recursive)}})
\* a search that does not look at in_content
Directory_search_by_scope(d, pattern, scope, in_content, o) ==
    search_in_scope(d, pattern, scope, d.i = 1, o)
\* DSLDirectory.search(pattern, scope, in_content)
Directory_search_scoped(d, pattern, scope, in_content, o) ==
    search_in_scope(d, pattern, IF in_content THEN "content" ELSE scope, d.i = 1, o)

-----------------------------------------------------------------------------
(* DSLDirectory.tree (runtime.py:502-624).  A line of the tree is its      *)
(* depth (two spaces of indentation each) and its label.                   *)

TreeLine(depth, label) == [depth |-> depth, label |-> label]
TruncatedLine(max_entries) ==
    TreeLine(0, "... truncated after " \o ToString(max_entries) \o " entries")
UnreadableLine(depth) == TreeLine(depth, "[unreadable]")

\* sorted(..., key=name.lower()) over the names of the filesystem
NameOrder == <<"a.txt", "box", "empty", "etc", "link", "n.pdf", "passwd", "sub">>

\* Path.iterdir(): the entries of a directory that can be listed
iterdir(current) ==
    {Append(current, Last(x)) :
        x \in {y \in (Dirs \ {Root}) \cup {Link} \cup {f \in FilePaths : IsFile(f)} :
                 Front(y) = Resolve(current)}}
\* Path.is_dir() follows the symbolic link
is_dir(entry) == IsDir(Resolve(entry))

\* sorted(entries, key=(not is_dir, name.lower()))
RECURSIVE EntriesFrom(_, _, _)
EntriesFrom(order, current, dirs) ==
    IF order = <<>> THEN <<>>
    ELSE (IF /\ Append(current, Head(order)) \in iterdir(current)
             /\ is_dir(Append(current, Head(order))) = dirs
          THEN <<Append(current, Head(order))>> ELSE <<>>)
         \o EntriesFrom(Tail(order), current, dirs)
sorted_entries(current) ==
    EntriesFrom(NameOrder, current, TRUE) \o EntriesFrom(NameOrder, current, FALSE)

EntryLine(entry, depth) ==
    TreeLine(depth + 1, IF is_dir(entry) THEN Last(entry) \o "/" ELSE Last(entry))

\* walk(current, depth) of tree(): st is [lines, truncated], emitted is
\* the number of lines, go is what walk returns
RECURSIVE walk(_, _, _, _)
RECURSIVE walk_entries(_, _, _, _)
walk(current, depth, lim, st) ==
    IF depth >= lim.max_depth THEN [st |-> st, go |-> TRUE]
    ELSE IF Resolve(current) \in locked
    THEN [st |-> [st EXCEPT !.lines = Append(@, UnreadableLine(depth + 1))],
          go |-> Len(st.lines) + 1 < lim.max_entries]
    ELSE walk_entries(sorted_entries(current), depth, lim, st)
walk_entries(entries, depth, lim, st) ==
    IF entries = <<>> THEN [st |-> st, go |-> TRUE]
    ELSE IF Len(st.lines) >= lim.max_entries
    THEN [st |-> [st EXCEPT !.truncated = TRUE], go |-> FALSE]
    ELSE IF is_dir(Head(entries))
    THEN The({IF ~r.go THEN r ELSE walk_entries(Tail(entries), depth, lim, r.st) :
                r \in {walk(Head(entries), depth + 1, lim,
                            [st EXCEPT !.lines = Append(@, EntryLine(Head(entries), depth))])}})
    ELSE walk_entries(Tail(entries), depth, lim,
                      [st EXCEPT !.lines = Append(@, EntryLine(Head(entries), depth))])

\* the node of _render_tree_from_paths at the relative directory rel: the
\* names of its "dirs" and of its "files", sorted by name.lower()
node_dirs(paths, base, rel) ==
    SortedFrom(NameOrder,
               {p[Len(base) + Len(rel) + 1] :
                   p \in {q \in Range(paths) : /\ IsPrefix(base \o rel, q)
                                                /\ Len(q) > Len(base) + Len(rel) + 1}})
node_files(paths, base, rel) ==
    SortedFrom(NameOrder,
               {Last(p) : p \in {q \in Range(paths) : /\ IsPrefix(base \o rel, q)
                                                       /\ Len(q) = Len(base) + Len(rel) + 1}})

\* walk(node, depth) of _render_tree_from_paths: the directories of the
\* node, each followed by its own walk, then the files of the node
RECURSIVE walk_node(_, _, _, _, _, _)
RECURSIVE walk_items(_, _, _, _, _, _, _, _)
walk_node(paths, base, rel, depth, lim, st) ==
    IF depth >= lim.max_depth THEN [st |-> st, go |-> TRUE]
    ELSE walk_items(paths, base, rel, node_dirs(paths, base, rel),
                    node_files(paths, base, rel), depth, lim, st)
walk_items(paths, base, rel, dirs, files, depth, lim, st) ==
    IF dirs = <<>> /\ files = <<>> THEN [st |-> st, go |-> TRUE]
    ELSE IF Len(st.lines) >= lim.max_entries
    THEN [st |-> [st EXCEPT !.truncated = TRUE], go |-> FALSE]
    ELSE IF dirs # <<>>
    THEN The({IF ~r.go THEN r
              ELSE walk_items(paths, base, rel, Tail(dirs), files, depth, lim, r.st) :
                r \in {walk_node(paths, base, Append(rel, Head(dirs)), depth + 1, lim,
                                 [st EXCEPT !.lines =
                                     Append(@, TreeLine(depth + 1, Head(dirs) \o "/"))])}})
    ELSE walk_items(paths, base, rel, dirs, Tail(files), depth, lim,
                    [st EXCEPT !.lines = Append(@, TreeLine(depth + 1, Head(files)))])

Rendered(st, max_entries) ==
    [ok |-> TRUE, err |-> "",
     lines |-> IF st.truncated THEN Append(st.lines, TruncatedLine(max_entries))
               ELSE st.lines]
TreeError(message) == [ok |-> FALSE, err |-> message, lines |-> <<>>]

\* DSLDirectory.tree(max_depth, max_entries), both of them integers
Directory_tree(d, max_depth, max_entries) ==
    IF max_depth < 0 THEN TreeError("max_depth must be a non-negative integer")
    ELSE IF max_entries < 1 THEN TreeError("max_entries must be a positive integer")
    ELSE The({Rendered(
                 (IF db_paths.some
                  THEN walk_node(db_paths.v, d.e, <<>>, 0,
                                 [max_depth |-> max_depth, max_entries |-> max_entries],
                                 [lines |-> <<TreeLine(0, _display_path(d.e) \o "/")>>,
                                  truncated |-> FALSE])
                  ELSE walk(d.e, 0,
                            [max_depth |-> max_depth, max_entries |-> max_entries],
                            [lines |-> <<TreeLine(0, _display_path(d.e) \o "/")>>,
                             truncated |-> FALSE])).st,
                 max_entries) :
                db_paths \in {get_directory_file_paths_from_database(d.e, TRUE)}})

-----------------------------------------------------------------------------
(* A host that prepares an index, changes the documents, changes the       *)
(* permissions of a directory and calls the methods of a DSLDirectory.     *)
(* It takes the result of a call before it does anything else: dcall       *)
(* describes a call on the documents and the index as they are.            *)

MaxDepth == 2
MaxEntries == 8
Listed == {Box, Sub, Empty}
Scopes == {"name", "content", "both", "path"}
Lockable == {Empty}

notDirectory ==
    <<interpVars, indexVars, threadVars, budgetVars, clockVars, captureVars, vectorVars,
      parseVars, moreVars>>

DirCalls ==
    {[op |-> "files", recursive |-> r] : r \in {NoneV, BoolV(TRUE), BoolV(FALSE)}}
    \cup {[op |-> "len"]}
    \cup {[op |-> "search", pattern |-> pattern, scope |-> scope, in_content |-> in_content] :
            pattern \in Patterns, scope \in Scopes, in_content \in BOOLEAN}
    \cup {[op |-> "tree", max_depth |-> max_depth, max_entries |-> max_entries] :
            max_depth \in 0..MaxDepth, max_entries \in 0..MaxEntries}

DirCallResult(d, c) ==
    CASE c.op = "files" -> Directory_files(d, c.recursive, <<>>)
      [] c.op = "len" -> Ok(IntV(Directory_len(d)), <<>>)
      [] c.op = "search" ->
            Directory_search_scoped(d, c.pattern, c.scope, c.in_content, <<>>)
      [] OTHER -> Directory_tree(d, c.max_depth, c.max_entries)

\* the document a.txt is there or not, no folder has an index
InitDirectory ==
    /\ \E here \in BOOLEAN :
          fs = [p \in FilePaths |-> IF p = FileA /\ ~here THEN NoFile ELSE Documents[p]]
    /\ db = [d \in Dirs |-> NoDb]
    /\ IdleInterpreter
    /\ call = NoCall
    /\ before = NoBefore
    /\ sys_stdout = "console"
    /\ threads = <<>>
    /\ console = <<>>
    /\ run = NoRun
    /\ NoClock
    /\ caller = NoCaller
    /\ NoVectors
    /\ NoDir
    /\ source = NoSource
    /\ NoMore

\* prepare_semantic_database(F)
PrepareIndex ==
    /\ dcall = NoDirCall
    /\ \E F \in IndexFolders :
          /\ \A G \in Dirs \ {F} : ~db[G].dir
          /\ db' = [db EXCEPT ![F] = prepare_semantic_database(F)]
    /\ UNCHANGED <<fs, dcall, locked, notDirectory>>

\* the host deletes a document
RemoveDocument ==
    /\ dcall = NoDirCall
    /\ \E p \in Deletable :
          /\ IsFile(p)
          /\ fs' = [fs EXCEPT ![p] = NoFile]
    /\ UNCHANGED <<db, dcall, locked, notDirectory>>

\* the host writes the document a.txt
WriteDocument ==
    /\ dcall = NoDirCall
    /\ ~IsFile(FileA)
    /\ fs' = [fs EXCEPT ![FileA] = Documents[FileA]]
    /\ UNCHANGED <<db, dcall, locked, notDirectory>>

\* the host takes away or gives back the permission to list a directory
Chmod ==
    /\ dcall = NoDirCall
    /\ \E d \in Lockable : locked' = IF d \in locked THEN locked \ {d} ELSE locked \cup {d}
    /\ UNCHANGED <<fs, db, dcall, notDirectory>>

\* Directory(D, recursive=r), then one method of the object
DirectoryCall ==
    /\ dcall = NoDirCall
    /\ \E D \in Listed, r \in BOOLEAN, c \in DirCalls :
          \E d \in {DSLDirectory(D, r, <<>>)} :
              /\ d.ok
              /\ dcall' = [op |-> c.op, dir |-> d.val, c |-> c, r |-> DirCallResult(d.val, c)]
    /\ UNCHANGED <<fs, db, locked, notDirectory>>

\* the host has used the result
TakeResult ==
    /\ dcall # NoDirCall
    /\ dcall' = NoDirCall
    /\ UNCHANGED <<fs, db, locked, notDirectory>>

NextDirectory ==
    \/ PrepareIndex
    \/ RemoveDocument
    \/ WriteDocument
    \/ Chmod
    \/ DirectoryCall
    \/ TakeResult

SpecDirectory == InitDirectory /\ [][NextDirectory]_vars

\* the order of str on the characters of paths, and on texts
CharOrder == <<".", "/">> \o Alphabet
CharRank(c) == CHOOSE i \in DOMAIN CharOrder : CharOrder[i] = c
RECURSIVE TextLess(_, _)
TextLess(s, t) ==
    IF t = <<>> THEN FALSE
    ELSE IF s = <<>> THEN TRUE
    ELSE IF Head(s) = Head(t) THEN TextLess(Tail(s), Tail(t))
    ELSE CharRank(Head(s)) < CharRank(Head(t))
\* p.as_posix() < q.as_posix() for two absolute paths
PosixLess(p, q) == TextLess(<<"/">> \o PosixChars(p), <<"/">> \o PosixChars(q))

\* the index that covers a directory, and the files that it has
Covered(D) == _find_indexed_root(D).ok /\ db[_find_indexed_root(D).root].has_records
IndexedFiles(D) ==
    {_find_indexed_root(D).root \o db[_find_indexed_root(D).root].records[i].relative_path :
        i \in DOMAIN db[_find_indexed_root(D).root].records}
\* the recursive flag that a call of files() or len() uses
FlagOf(c) ==
    IF c.op = "files" /\ c.c.recursive.k # "none" THEN c.c.recursive.i = 1 ELSE c.dir.i = 1
PathsOfFiles(list) == [i \in DOMAIN list |-> list[i].e]

\* C16: for a directory D covered by a prepared index, the enumeration
\* served from the index is sorted ascending by path string, has no
\* duplicates and holds exactly the indexed files under D when recursive
\* is true, exactly the indexed files whose parent is D when it is false;
\* len(D) is the size of that list.
C16_IndexEnumeration ==
    (dcall.op \in {"files", "len"} /\ Covered(dcall.dir.e)) =>
        /\ dcall.r.ok
        /\ dcall.op = "files" =>
              /\ \A i, j \in DOMAIN dcall.r.val.e :
                    i < j => PosixLess(dcall.r.val.e[i].e, dcall.r.val.e[j].e)
              /\ Range(PathsOfFiles(dcall.r.val.e))
                    = {p \in IndexedFiles(dcall.dir.e) :
                         IF FlagOf(dcall)
                         THEN IsPrefix(dcall.dir.e, p) /\ p # dcall.dir.e
                         ELSE Front(p) = dcall.dir.e}
        /\ dcall.op = "len" =>
              dcall.r.val.i
                 = Cardinality({p \in IndexedFiles(dcall.dir.e) :
                                  IF FlagOf(dcall)
                                  THEN IsPrefix(dcall.dir.e, p) /\ p # dcall.dir.e
                                  ELSE Front(p) = dcall.dir.e})

\* the index of Box has a.txt and sub/n.pdf, a.txt has been deleted since,
\* and files() of Box lists both, in the order of their paths
C16_IndexEnumerationWitness ==
    /\ dcall.op = "files"
    /\ dcall.dir.e = Box
    /\ Covered(Box)
    /\ ~IsFile(FileA)
    /\ FlagOf(dcall)
    /\ dcall.r.ok
    /\ PathsOfFiles(dcall.r.val.e) = <<FileA, FileN>>

\* what decides that a file of the enumeration is a match
NameTest(path) ==
    \/ RegexSearch(dcall.c.pattern, NameChars(Last(path)))
    \/ RegexSearch(dcall.c.pattern,
                   PosixChars(SubSeq(path, Len(dcall.dir.e) + 1, Len(path))))
ContentTest(path) == File_contains(FileV(path), dcall.c.pattern, <<>>).val.i = 1
ScopeTest(path) ==
    CASE dcall.c.in_content \/ dcall.c.scope = "content" -> ContentTest(path)
      [] dcall.c.scope = "name" -> NameTest(path)
      [] OTHER -> NameTest(path) \/ ContentTest(path)

\* C17: Directory.search(pattern, scope, in_content) returns the files of
\* the enumeration of the directory, in the order of the enumeration, that
\* match by name (the regex is found in the basename or in the posix
\* relative path) for scope "name", by content (contains) for scope
\* "content", by either for scope "both"; in_content=true behaves as scope
\* "content"; any other value of scope is a runtime error.
C17_SearchScopes ==
    dcall.op = "search" =>
        IF ~dcall.c.in_content /\ dcall.c.scope \notin {"name", "content", "both"}
        THEN ~dcall.r.ok
        ELSE /\ dcall.r.ok
             /\ PathsOfFiles(dcall.r.val.e)
                   = SelectSeq(_iter_file_paths(dcall.dir.e, dcall.dir.i = 1), ScopeTest)

\* a search with scope "both" returned two files, one that matches by its
\* content and not by its name, one that matches by its relative path and
\* not by its basename
C17_SearchScopesWitness ==
    /\ dcall.op = "search"
    /\ dcall.r.ok
    /\ dcall.c.scope = "both"
    /\ ~dcall.c.in_content
    /\ Len(dcall.r.val.e) = 2
    /\ \E i, j \in DOMAIN dcall.r.val.e :
          /\ ContentTest(dcall.r.val.e[i].e) /\ ~NameTest(dcall.r.val.e[i].e)
          /\ NameTest(dcall.r.val.e[j].e)
          /\ ~RegexSearch(dcall.c.pattern, NameChars(Last(dcall.r.val.e[j].e)))

\* the entries of a directory down to a number of levels: those that can
\* be listed, or those of the index when an index serves the directory
RECURSIVE LiveEntries(_, _)
LiveEntries(current, levels) ==
    IF levels = 0 \/ Resolve(current) \in locked THEN {}
    ELSE UNION {{e} \cup (IF is_dir(e) THEN LiveEntries(e, levels - 1) ELSE {}) :
                  e \in iterdir(current)}
IndexEntries(paths, base, levels) ==
    UNION {{SubSeq(p, 1, k) :
               k \in {n \in (Len(base) + 1)..(Len(base) + levels) : n <= Len(p)}} :
             p \in {q \in Range(paths) : IsPrefix(base, q)}}
EntriesWithin(d, levels) ==
    IF get_directory_file_paths_from_database(d.e, TRUE).some
    THEN IndexEntries(get_directory_file_paths_from_database(d.e, TRUE).v, d.e, levels)
    ELSE LiveEntries(d.e, levels)

\* the lines of a tree before the line that tells of the truncation, and
\* those of them that are entries
IsTruncated(lines) == Len(lines) > 1 /\ Last(lines).depth = 0
Emitted(lines) == IF IsTruncated(lines) THEN Front(lines) ELSE lines
EntryLines(lines) ==
    {i \in DOMAIN Emitted(lines) : i > 1 /\ lines[i] # UnreadableLine(lines[i].depth)}

\* C18: for every directory content, max_depth and max_entries, tree()
\* emits at most max_entries lines, the root line included, before it
\* stops, and it appends the line "... truncated after N entries" with
\* N = max_entries exactly when at least one entry within max_depth was
\* left unemitted because the limit was reached.
C18_TreeLimit ==
    (dcall.op = "tree" /\ dcall.r.ok) =>
        /\ Len(Emitted(dcall.r.lines)) <= dcall.c.max_entries
        /\ IsTruncated(dcall.r.lines)
              <=> Cardinality(EntryLines(dcall.r.lines))
                     < Cardinality(EntriesWithin(dcall.dir, dcall.c.max_depth))
        /\ IsTruncated(dcall.r.lines)
              => Last(dcall.r.lines) = TruncatedLine(dcall.c.max_entries)

-----------------------------------------------------------------------------
(* The parser of lines (parser.py:372-616).  A line of the source is its   *)
(* leading white space and the text that follows it.  The texts are a      *)
(* call, an assignment whose list is left open, the rest of that list, an  *)
(* if, a comment and nothing.  The column of an error inside an            *)
(* expression is left out of the model, as 0.                              *)

MaxLines == 3
Indents == {<<>>, <<" ">>, <<"\t">>, <<" ", "\t">>}
LineTexts == {"print(1)", "x = [1,", "2]", "if true:", "# c", ""}
SourceLines == [indent : Indents, body : LineTexts]
Sources == UNION {[1..n -> SourceLines] : n \in 1..MaxLines}

TabsMessage == "Tabs are not supported for indentation"
ParsedTo(index, n) ==
    [ok |-> TRUE, index |-> index, n |-> n, message |-> "", line |-> 0, column |-> 0]
SyntaxError(message, line, column) ==
    [ok |-> FALSE, index |-> 0, n |-> 0, message |-> message, line |-> line,
     column |-> column]

\* Parser._is_blank_or_comment
_is_blank_or_comment(raw_line) == raw_line.body \in {"# c", ""}
\* Parser._strip_comment(raw_line).strip()
stripped_text(raw_line) == IF raw_line.body = "# c" THEN "" ELSE raw_line.body
\* Parser._delimiter_balance
_delimiter_balance(text) ==
    CASE text \in {"x = [1,", "if [1,"} -> 1
      [] text \in {"2]", "2]:"} -> -1
      [] OTHER -> 0

\* Parser._leading_indent: the number of spaces, or the error at the tab
HasTab(raw_line) == "\t" \in Range(raw_line.indent)
TabColumn(raw_line) == CHOOSE i \in DOMAIN raw_line.indent : raw_line.indent[i] = "\t"
_leading_indent(raw_line, line_no) ==
    IF HasTab(raw_line) THEN SyntaxError(TabsMessage, line_no, TabColumn(raw_line))
    ELSE ParsedTo(Len(raw_line.indent), 0)

\* the next line that is not blank and not a comment
RECURSIVE SkipBlank(_, _)
SkipBlank(lines, scan) ==
    IF scan <= Len(lines) /\ _is_blank_or_comment(lines[scan]) THEN SkipBlank(lines, scan + 1)
    ELSE scan

\* Parser._collect_continued_expression: next is the line after the last
\* one taken, parts are the stripped texts taken
RECURSIVE _collect_continued_expression(_, _, _, _, _)
_collect_continued_expression(lines, line_no, next, balance, parts) ==
    IF balance <= 0 THEN [ok |-> TRUE, next |-> next, parts |-> parts]
    ELSE IF next > Len(lines)
    THEN [ok |-> FALSE, next |-> next, parts |-> parts]
    ELSE _collect_continued_expression(
             lines, line_no, next + 1,
             balance + _delimiter_balance(stripped_text(lines[next])),
             Append(parts, stripped_text(lines[next])))

\* Parser._parse_expression on the text of an open list and the lines that
\* continue it: the list is closed by "2]", empty lines between are skipped
IsText(t) == t # ""
ListParses(parts) == SelectSeq(parts, IsText) = <<"2]">>

RECURSIVE _parse_block(_, _, _, _)
RECURSIVE _parse_statement(_, _, _, _)
RECURSIVE _parse_child_block(_, _, _, _, _)

\* Parser._parse_block from the line at index; n counts the statements
_parse_block(lines, index, expected_indent, n) ==
    IF index > Len(lines) THEN ParsedTo(index, n)
    ELSE IF _is_blank_or_comment(lines[index])
    THEN _parse_block(lines, index + 1, expected_indent, n)
    ELSE IF ~_leading_indent(lines[index], index).ok THEN _leading_indent(lines[index], index)
    ELSE IF Len(lines[index].indent) < expected_indent THEN ParsedTo(index, n)
    ELSE IF Len(lines[index].indent) > expected_indent
    THEN SyntaxError("Unexpected indentation", index, Len(lines[index].indent) + 1)
    ELSE The({IF ~r.ok THEN r ELSE _parse_block(lines, r.index, expected_indent, r.n) :
                r \in {_parse_statement(lines, index, Len(lines[index].indent), n)}})

\* Parser._parse_statement, with _parse_if_statement for an if.  An error of
\* the expression parser keeps its message and line; its column is left 0.
_parse_statement(lines, line_no, indent, n) ==
    CASE lines[line_no].body = "if true:" ->
            The({IF ~body.ok THEN body
                 ELSE IF SkipBlank(lines, body.index) > Len(lines)
                 THEN ParsedTo(SkipBlank(lines, body.index), body.n)
                 ELSE IF ~_leading_indent(lines[SkipBlank(lines, body.index)],
                                          SkipBlank(lines, body.index)).ok
                 THEN _leading_indent(lines[SkipBlank(lines, body.index)],
                                      SkipBlank(lines, body.index))
                 ELSE ParsedTo(SkipBlank(lines, body.index), body.n) :
                   body \in {_parse_child_block(lines, line_no + 1, indent, line_no, n + 1)}})
      [] lines[line_no].body = "x = [1," ->
            The({IF ~rhs.ok
                 THEN SyntaxError("Unterminated expression. Missing closing bracket/parenthesis",
                                  line_no, 1)
                 ELSE IF ~ListParses(rhs.parts) THEN SyntaxError("Expected ']' to close list", line_no, 0)
                 ELSE ParsedTo(rhs.next, n + 1) :
                   rhs \in {_collect_continued_expression(lines, line_no, line_no + 1, 1, <<>>)}})
      [] lines[line_no].body = "2]" -> SyntaxError("Unexpected token ']'", line_no, 0)
      [] OTHER -> ParsedTo(line_no + 1, n + 1)

\* Parser._parse_child_block
_parse_child_block(lines, index, parent_indent, parent_line, n) ==
    The({IF scan > Len(lines)
         THEN SyntaxError("Expected an indented block", parent_line, parent_indent + 1)
         ELSE IF ~_leading_indent(lines[scan], scan).ok THEN _leading_indent(lines[scan], scan)
         ELSE IF Len(lines[scan].indent) <= parent_indent
         THEN SyntaxError("Expected an indented block", scan, Len(lines[scan].indent) + 1)
         ELSE _parse_block(lines, scan, Len(lines[scan].indent), n) :
           scan \in {SkipBlank(lines, index)}})

\* Parser.parse
Parser_parse(lines) == _parse_block(lines, 1, 0, 0)

\* Interpreter.run: the program is parsed, then its statements are
\* executed; each statement of these sources is executed once
Interpreter_run(lines) ==
    The({[ok |-> program.ok, executed |-> program.n, message |-> program.message,
          line |-> program.line, column |-> program.column] :
           program \in {Parser_parse(lines)}})

notParse ==
    <<interpVars, indexVars, threadVars, budgetVars, clockVars, captureVars, vectorVars,
      dirVars, moreVars>>

InitSource ==
    /\ fs = Documents
    /\ db = [d \in Dirs |-> NoDb]
    /\ IdleInterpreter
    /\ call = NoCall
    /\ before = NoBefore
    /\ sys_stdout = "console"
    /\ threads = <<>>
    /\ console = <<>>
    /\ run = NoRun
    /\ NoClock
    /\ caller = NoCaller
    /\ NoVectors
    /\ NoDir
    /\ NoMore
    /\ \E script \in Sources : source = [script |-> script, done |-> FALSE]

\* Interpreter(source).run()
RunSource ==
    /\ ~source.done
    /\ source' = [script |-> source.script, done |-> TRUE, r |-> Interpreter_run(source.script)]
    /\ UNCHANGED <<worldVars, notParse>>

NextSource == RunSource

SpecSource == InitSource /\ [][NextSource]_vars

\* the lines of code that are indented with a tab
TabLines(script) ==
    {k \in DOMAIN script : ~_is_blank_or_comment(script[k]) /\ HasTab(script[k])}

\* C19: a script in which a line of code is indented with a tab is
\* rejected with a syntax error whose line is that line and whose column is
\* the 1-based column of the tab, and no statement of the script is
\* executed.
C19_TabRejected ==
    (source.done /\ TabLines(source.script) # {}) =>
        /\ ~source.r.ok
        /\ source.r.executed = 0
        /\ source.r.message = TabsMessage
        /\ source.r.line \in TabLines(source.script)
        /\ source.r.column = TabColumn(source.script[source.r.line])

-----------------------------------------------------------------------------
(* The specifications below leave the hosts above idle. *)

earlierVars ==
    <<interpVars, indexVars, threadVars, budgetVars, clockVars, captureVars, vectorVars,
      dirVars, parseVars>>
NoEarlier ==
    /\ IdleInterpreter
    /\ call = NoCall
    /\ before = NoBefore
    /\ sys_stdout = "console"
    /\ threads = <<>>
    /\ console = <<>>
    /\ run = NoRun
    /\ NoClock
    /\ caller = NoCaller
    /\ NoVectors
    /\ NoDir
    /\ source = NoSource

-----------------------------------------------------------------------------
(* The caches of records.json and vectors.json (semantic.py:392-439).      *)
(* _load_records and _load_vectors take the key of the file with stat()    *)
(* and call a function wrapped in lru_cache(maxsize=8) with it; on a miss  *)
(* the function reads the file by its path.  Threads of one process load   *)
(* one of the files while a prepare rewrites it.  A rewrite is one step    *)
(* and gives the file a later mtime.  The parsed content of a file stands  *)
(* for its text, and st_size is the length of that text.                   *)

CacheMaxSize == 8
MaxMtime == 3
CachedFiles == {"records.json", "vectors.json"}
Versions == {"old", "new!", "one"}
Readers == {"r1", "r2"}

IdleReader == [pc |-> "idle"]
NotReturned == [made |-> FALSE]

\* _cache_key(path): (path, st_mtime_ns, st_size)
_cache_key(f) == [path |-> f, mtime |-> disk[f].mtime, size |-> Len(disk[f].content)]

\* the entry of a key in a cache, oldest entry first
Cached(cache, key) == {i \in DOMAIN cache : cache[i].key = key}
WithoutEntry(cache, i) == SubSeq(cache, 1, i - 1) \o SubSeq(cache, i + 1, Len(cache))
\* a hit moves the entry to the most recent place
lru_hit(cache, i) == Append(WithoutEntry(cache, i), cache[i])
\* after a miss: an entry that another thread has stored meanwhile stays;
\* a full cache drops its oldest entry
lru_store(cache, key, value) ==
    IF Cached(cache, key) # {} THEN cache
    ELSE IF Len(cache) >= CacheMaxSize
    THEN Append(Tail(cache), [key |-> key, value |-> value])
    ELSE Append(cache, [key |-> key, value |-> value])

notCache == <<worldVars, earlierVars, lookupVars, fileVars, loopVars, lineVars>>

InitCache ==
    /\ fs = Documents
    /\ db = [d \in Dirs |-> NoDb]
    /\ NoEarlier
    /\ \E g \in CachedFiles :
        /\ disk = [f \in {g} |-> [content |-> "old", mtime |-> 1]]
        /\ lru = [f \in {g} |-> <<>>]
        /\ had = {[file |-> g, key |-> [path |-> g, mtime |-> 1, size |-> Len("old")],
                   content |-> "old"]}
    /\ readers = [t \in Readers |-> [st |-> IdleReader, returned |-> NotReturned]]
    /\ lookup = NoLookup
    /\ NoObject
    /\ NoLoop
    /\ NoText

\* _write_faiss_database, 380-383: write_text on one of the files
Rewrite ==
    /\ TRUE
    /\ \E f \in DOMAIN disk, c \in Versions :
        /\ disk[f].mtime < MaxMtime
        /\ c # disk[f].content
        /\ disk' = [disk EXCEPT ![f] = [content |-> c, mtime |-> disk[f].mtime + 1]]
        /\ had' = had \cup {[file |-> f,
                             key |-> [path |-> f, mtime |-> disk[f].mtime + 1, size |-> Len(c)],
                             content |-> c]}
        /\ UNCHANGED <<lru, readers, notCache>>

\* _load_records / _load_vectors: _cache_key(path), the arguments of the call
StatFile(t) ==
    /\ readers[t].st.pc = "idle"
    /\ \E f \in DOMAIN disk :
        readers' = [readers EXCEPT ![t].st = [pc |-> "called", file |-> f, key |-> _cache_key(f)]]
    /\ UNCHANGED <<disk, lru, had, notCache>>

\* the wrapper of lru_cache looks the key up: a hit returns the stored value
CacheHit(t) ==
    /\ readers[t].st.pc = "called"
    /\ \E f \in {readers[t].st.file} : \E i \in Cached(lru[f], readers[t].st.key) :
        /\ lru' = [lru EXCEPT ![f] = lru_hit(lru[f], i)]
        /\ readers' = [readers EXCEPT ![t] =
                          [st |-> IdleReader,
                           returned |-> [made |-> TRUE, file |-> f, key |-> readers[t].st.key,
                                         value |-> lru[f][i].value]]]
    /\ UNCHANGED <<disk, had, notCache>>

\* a miss calls _load_records_cached / _load_vectors_cached
CacheMiss(t) ==
    /\ readers[t].st.pc = "called"
    /\ Cached(lru[readers[t].st.file], readers[t].st.key) = {}
    /\ readers' = [readers EXCEPT ![t].st.pc = "missed"]
    /\ UNCHANGED <<disk, lru, had, notCache>>

\* json.loads(Path(path).read_text()), 419 and 432: the file as it is now
ReadText(t) ==
    /\ readers[t].st.pc = "missed"
    /\ readers' = [readers EXCEPT ![t].st =
                      [pc |-> "loaded", file |-> readers[t].st.file, key |-> readers[t].st.key,
                       loaded |-> disk[readers[t].st.file].content]]
    /\ UNCHANGED <<disk, lru, had, notCache>>

\* the wrapper stores the result under the key of the call and returns it
CacheStore(t) ==
    /\ readers[t].st.pc = "loaded"
    /\ \E f \in {readers[t].st.file} :
        /\ lru' = [lru EXCEPT ![f] = lru_store(lru[f], readers[t].st.key, readers[t].st.loaded)]
        /\ readers' = [readers EXCEPT ![t] =
                          [st |-> IdleReader,
                           returned |-> [made |-> TRUE, file |-> f, key |-> readers[t].st.key,
                                         value |-> readers[t].st.loaded]]]
    /\ UNCHANGED <<disk, had, notCache>>

NextCache ==
    \/ Rewrite
    \/ \E t \in Readers : StatFile(t)
    \/ \E t \in Readers : CacheHit(t)
    \/ \E t \in Readers : CacheMiss(t)
    \/ \E t \in Readers : ReadText(t)
    \/ \E t \in Readers : CacheStore(t)

SpecCache == InitCache /\ [][NextCache]_vars

\* C21: every value the cache returns for a key (path, mtime, size), and
\* every value it stores under a key, is the parsed content the file had
\* while it had that mtime and size; a load that takes the key the file has
\* now returns the content the file has now.
C21_CacheKeyedByStat ==
    /\ \A f \in DOMAIN lru : \A i \in DOMAIN lru[f] :
          [file |-> f, key |-> lru[f][i].key, content |-> lru[f][i].value] \in had
    /\ \A t \in DOMAIN readers :
          readers[t].returned.made =>
            /\ [file |-> readers[t].returned.file, key |-> readers[t].returned.key,
                content |-> readers[t].returned.value] \in had
            /\ readers[t].returned.key = _cache_key(readers[t].returned.file)
                  => readers[t].returned.value = disk[readers[t].returned.file].content

-----------------------------------------------------------------------------
(* A script run with sandbox root R and cwd R makes a Directory, lists it  *)
(* and reads its files, while the host prepares the index of a folder and  *)
(* changes the documents.  lookup keeps, for the last lookup, the index    *)
(* folder whose records.json was loaded to serve it.                       *)

SandboxRoots == {Box, Sub}
DirectoryArgs == {".", "sub"}

\* the index folder that get_file_pages_from_database and
\* get_directory_file_paths_from_database load for a path
\* (semantic.py:128-146, 162-177)
index_read(path) ==
    The({IF found.ok /\ db[found.root].has_records THEN Some(found.root) ELSE None :
           found \in {_find_indexed_root(Resolve(path))}})

ALookup(op, path, result) ==
    [made |-> TRUE, op |-> op, path |-> path, index |-> index_read(path), result |-> result]

InitLookup ==
    /\ fs = Documents
    /\ db = [d \in Dirs |-> NoDb]
    /\ \E R \in SandboxRoots :
          /\ sandbox_root = R
          /\ cwd = R
    /\ proc_cwd = Box
    /\ variables = NoVariables
    /\ out = <<>>
    /\ status = "none"
    /\ err = ""
    /\ last = [stmt |-> NoStatement, pre |-> NoVariables, out |-> <<>>]
    /\ nstmts = 0
    /\ call = NoCall
    /\ before = NoBefore
    /\ sys_stdout = "console"
    /\ threads = <<>>
    /\ console = <<>>
    /\ run = NoRun
    /\ NoClock
    /\ caller = NoCaller
    /\ NoVectors
    /\ NoDir
    /\ source = NoSource
    /\ NoCache
    /\ lookup = NoLookup
    /\ NoObject
    /\ NoLoop
    /\ NoText

\* d = Directory(s, recursive=r); d.files()
ListDirectory ==
    /\ TRUE
    /\ \E s \in DirectoryArgs, r \in BOOLEAN :
          \E d \in {_builtin_directory(StrV(s), BoolV(r), <<>>)} :
              /\ d.ok
              /\ lookup' = ALookup("files", d.val.e, _iter_file_paths(d.val.e, r))
    /\ UNCHANGED <<worldVars, earlierVars, cacheVars, fileVars, loopVars, lineVars>>

\* for f in Directory(s, recursive=r): f.read()
ReadFile ==
    /\ TRUE
    /\ \E s \in DirectoryArgs, r \in BOOLEAN :
          \E d \in {_builtin_directory(StrV(s), BoolV(r), <<>>)} :
              /\ d.ok
              /\ \E f \in Range(_iter_file_paths(d.val.e, r)) :
                    lookup' = ALookup("pages", f, File_chunks(f))
    /\ UNCHANGED <<worldVars, earlierVars, cacheVars, fileVars, loopVars, lineVars>>

NextLookup ==
    \/ PrepareIndex
    \/ RemoveDocument
    \/ WriteDocument
    \/ ListDirectory
    \/ ReadFile

SpecLookup == InitLookup /\ [][NextLookup]_vars

\* C22: a lookup made for a File or a Directory inside the sandbox root
\* only reads an index folder located at the sandbox root or below it.
C22_IndexInsideSandbox ==
    (lookup.made /\ lookup.index.some) =>
        /\ IsRelativeTo(lookup.path, sandbox_root)
        /\ IsRelativeTo(lookup.index.v, sandbox_root)

-----------------------------------------------------------------------------
(* One DSLFile object (runtime.py:28-76, 162-183).  A host keeps the       *)
(* object, calls read(), head(), tail(), search() and contains() on it,    *)
(* and between the calls changes the document and prepares the index of    *)
(* Box again.  It takes the value of a call before it does anything else.  *)

\* DSLFile.__init__
DSLFile(path) == [path |-> path, _chunks_cache |-> None, _chunks_loaded_from_db |-> FALSE]

\* the extraction of the live document in DSLFile._chunks, 172-181
read_live_chunks(path) ==
    IF Suffix(path) = ".pdf" THEN File_read_pdf_pages(path) ELSE File_read_text_chunks(path)

\* the chunks of a call of _chunks on self, or its failure, and self after it
ChunksOf(chunks, self) == [ok |-> TRUE, chunks |-> chunks, err |-> "", self |-> self]
ChunksError(message, self) == [ok |-> FALSE, chunks |-> <<>>, err |-> message, self |-> self]
Materialized(self, chunks, from_db) ==
    ChunksOf(chunks, [path |-> self.path, _chunks_cache |-> Some(chunks),
                      _chunks_loaded_from_db |-> from_db])

\* DSLFile._chunks that extracts the pages again at every call
_chunks_every_time(self) ==
    The({IF db_chunks.some THEN Materialized(self, db_chunks.v, TRUE)
         ELSE The({IF ~read.ok THEN ChunksError(read.err, self)
                   ELSE Materialized(self, IF read.chunks = <<>> THEN <<<<>>>> ELSE read.chunks,
                                     self._chunks_loaded_from_db) :
                     read \in {read_live_chunks(self.path)}}) :
           db_chunks \in {get_file_pages_from_database(self.path)}})
\* DSLFile._chunks
_chunks(self) ==
    IF self._chunks_cache.some THEN ChunksOf(self._chunks_cache.v, self)
    ELSE The({IF db_chunks.some THEN Materialized(self, db_chunks.v, TRUE)
              ELSE The({IF ~read.ok THEN ChunksError(read.err, self)
                        ELSE Materialized(self,
                                          IF read.chunks = <<>> THEN <<<<>>>> ELSE read.chunks,
                                          self._chunks_loaded_from_db) :
                          read \in {read_live_chunks(self.path)}}) :
                db_chunks \in {get_file_pages_from_database(self.path)}})

\* read(), head(), tail(), search(pattern) and contains(pattern), given
\* the chunks that self._chunks() returned
FileMethods ==
    {[op |-> op, pattern |-> ""] : op \in {"read", "head", "tail"}}
    \cup {[op |-> op, pattern |-> pattern] : op \in {"search", "contains"}, pattern \in Patterns}
method_value(c, chunks) ==
    CASE c.op = "read" -> TextV(JoinText(<<"\n", "\n">>, chunks))
      [] c.op = "head" -> IF chunks = <<>> THEN StrV("") ELSE TextV(chunks[1])
      [] c.op = "tail" -> IF chunks = <<>> THEN StrV("") ELSE TextV(Last(chunks))
      [] c.op = "search" -> ListV(MatchingPages(c.pattern, chunks, 1))
      [] OTHER -> BoolV(MatchingPages(c.pattern, chunks, 1) # <<>>)

notFile == <<earlierVars, cacheVars, lookupVars, loopVars, lineVars>>

\* the documents that the host puts in the place of a document
Replacements(p) ==
    IF p = FileA THEN {Doc(<<text>>) : text \in Texts} ELSE {Doc(pages) : pages \in PdfPages}

InitFile ==
    /\ fs = Documents
    /\ db = [d \in Dirs |-> NoDb]
    /\ NoEarlier
    /\ NoCache
    /\ lookup = NoLookup
    /\ \E p \in Deletable : dslfile = DSLFile(p)
    /\ fcall = NoFileCall
    /\ NoLoop
    /\ NoText

\* prepare_semantic_database(Box)
PrepareBox ==
    /\ fcall = NoFileCall
    /\ db' = [db EXCEPT ![Box] = prepare_semantic_database(Box)]
    /\ UNCHANGED <<fs, fileVars, notFile>>

\* the host deletes the document of the object, or writes another one
ChangeDocument ==
    /\ fcall = NoFileCall
    /\ \E doc \in Replacements(dslfile.path) \cup {NoFile} :
          /\ doc # fs[dslfile.path]
          /\ fs' = [fs EXCEPT ![dslfile.path] = doc]
    /\ UNCHANGED <<db, fileVars, notFile>>

\* a method of the object is called
CallFile ==
    /\ fcall = NoFileCall
    /\ \E c \in FileMethods :
          \E r \in {_chunks(dslfile)} :
              /\ dslfile' = r.self
              /\ fcall' = [op |-> c.op, c |-> c, ok |-> r.ok, err |-> r.err,
                           val |-> IF r.ok THEN method_value(c, r.chunks) ELSE NoneV]
    /\ UNCHANGED <<fs, db, notFile>>

\* the host has used the value
TakeValue ==
    /\ fcall # NoFileCall
    /\ fcall' = NoFileCall
    /\ UNCHANGED <<fs, db, dslfile, notFile>>

NextFile ==
    \/ PrepareBox
    \/ ChangeDocument
    \/ CallFile
    \/ TakeValue

SpecFile == InitFile /\ [][NextFile]_vars

\* the pages of a path in the index, and the pages of the live document
IndexPages(path) == get_file_pages_from_database(path)
LivePages(path) ==
    IF read_live_chunks(path).chunks = <<>> THEN <<<<>>>> ELSE read_live_chunks(path).chunks

\* the cache is not empty, and a call that returned took its pages from it
CacheServes ==
    /\ dslfile._chunks_cache.some => dslfile._chunks_cache.v # <<>>
    /\ ~dslfile._chunks_cache.some => ~dslfile._chunks_loaded_from_db
    /\ (fcall # NoFileCall /\ fcall.ok) =>
          /\ dslfile._chunks_cache.some
          /\ fcall.val = method_value(fcall.c, dslfile._chunks_cache.v)
\* a step leaves a materialized cache alone; the step that materializes it
\* sets the flag exactly when the index had pages for the path, and then
\* the cache holds those pages, else the pages of the live document
CacheStep ==
    /\ dslfile._chunks_cache.some => dslfile' = dslfile
    /\ (~dslfile._chunks_cache.some /\ dslfile'._chunks_cache.some) =>
          /\ dslfile'._chunks_loaded_from_db <=> IndexPages(dslfile.path).some
          /\ dslfile'._chunks_cache.v =
                IF IndexPages(dslfile.path).some THEN IndexPages(dslfile.path).v
                ELSE LivePages(dslfile.path)

\* C23: the page cache of a File is materialized at most once: from then
\* on it is a non-empty sequence that no later step changes, every read,
\* head, tail, search and contains takes its pages from it whatever the
\* document and the index have become, and the loaded-from-index flag is
\* true exactly when the pages came from the index.
C23_PageCacheOnce == [](CacheServes) /\ [][CacheStep]_vars

\* a call returned pages although the document is gone and the index has
\* no page of it: the pages are those of the cache
C23_PageCacheOnceWitness ==
    /\ fcall # NoFileCall
    /\ fcall.ok
    /\ fcall.op = "read"
    /\ ~IsFile(dslfile.path)
    /\ ~IndexPages(dslfile.path).some
    /\ ~dslfile._chunks_loaded_from_db

-----------------------------------------------------------------------------
(* One for statement, step by step (interpreter.py:68-76):                 *)
(*     for x in xs:                                                        *)
(*         body                                                            *)
(* xs holds a Python list.  The evaluator evaluates stmt.iterable, and     *)
(* `for value in iterable` takes an iterator on that list object: the      *)
(* iterator keeps the object and an index, and each step compares the      *)
(* index with the length the object has then.  A statement of the body     *)
(* binds x or xs again, prints x, or calls xs.append(x): getattr gives a   *)
(* script the methods of a list (interpreter.py:112-119).                  *)

MaxRounds == 4

RebindLoopVar == Assign("x", Num(9))
RebindIterable == Assign("xs", ListLiteral(<<Num(7)>>))
PrintLoopVar == ExprStatement(Call(Name("print"), <<Name("x")>>, <<>>))
AppendLoopVar == ExprStatement(Call(Attribute(Name("xs"), "append"), <<Name("x")>>, <<>>))
BodyStatements == {RebindLoopVar, RebindIterable, PrintLoopVar, AppendLoopVar}
LoopBodies == UNION {[1..n -> BodyStatements] : n \in 1..2}

\* the list object a re-evaluation of stmt.iterable would give
iterated_list_now(l, e) == e.xs
\* the list object of the iterator: the value stmt.iterable had at entry
iterated_list(l, e) == l.iter.obj

\* the position after the statement at l.at of the body
AfterStatement(l) ==
    IF l.at = Len(l.body) THEN [l EXCEPT !.pc = "next", !.at = 0]
    ELSE [l EXCEPT !.at = l.at + 1]

notLoop == <<worldVars, earlierVars, cacheVars, lookupVars, fileVars, lineVars>>

\* xs = [1, ..., n], x unbound, and the for statement not yet started
InitLoop ==
    /\ fs = Documents
    /\ db = [d \in Dirs |-> NoDb]
    /\ NoEarlier
    /\ NoCache
    /\ lookup = NoLookup
    /\ NoObject
    /\ \E n \in 0..MaxInt : heap = <<[i \in 1..n |-> i]>>
    /\ env = [xs |-> 1, x |-> Unbound]
    /\ \E body \in LoopBodies :
          floop = [pc |-> "for", at |-> 0, body |-> body, iter |-> [obj |-> 0, index |-> 0],
                   entry |-> <<>>, bound |-> <<>>, printed |-> <<>>]
    /\ NoText

\* iterable = self._eval_expr(stmt.iterable), and iter(iterable)
EvalIterable ==
    /\ floop.pc = "for"
    /\ floop' = [floop EXCEPT !.pc = "next", !.iter = [obj |-> env.xs, index |-> 0],
                              !.entry = heap[env.xs]]
    /\ UNCHANGED <<heap, env, notLoop>>

\* the iterator yields an item: self.variables[stmt.var_name] = value
NextElement ==
    /\ floop.pc = "next"
    /\ Len(floop.bound) < MaxRounds
    /\ \E items \in {heap[iterated_list(floop, env)]} :
          /\ floop.iter.index < Len(items)
          /\ env' = [env EXCEPT !.x = IntV(items[floop.iter.index + 1])]
          /\ floop' = [floop EXCEPT !.pc = "body", !.at = 1,
                                    !.iter.index = floop.iter.index + 1,
                                    !.bound = Append(floop.bound, items[floop.iter.index + 1])]
    /\ UNCHANGED <<heap, notLoop>>

\* the iterator is exhausted
EndFor ==
    /\ floop.pc = "next"
    /\ floop.iter.index >= Len(heap[iterated_list(floop, env)])
    /\ floop' = [floop EXCEPT !.pc = "done"]
    /\ UNCHANGED <<heap, env, notLoop>>

\* x = 9, or xs = [7]: a list literal makes a new list object
BodyAssign ==
    /\ floop.pc = "body"
    /\ floop.body[floop.at].t = "Assign"
    /\ IF floop.body[floop.at].name = "x"
       THEN /\ env' = [env EXCEPT !.x = floop.body[floop.at].expr.value]
            /\ heap' = heap
       ELSE /\ heap' = Append(heap, <<7>>)
            /\ env' = [env EXCEPT !.xs = Len(heap) + 1]
    /\ floop' = AfterStatement(floop)
    /\ UNCHANGED notLoop

\* print(x)
BodyPrint ==
    /\ floop.pc = "body"
    /\ floop.body[floop.at] = PrintLoopVar
    /\ floop' = [AfterStatement(floop) EXCEPT !.printed = Append(floop.printed, env.x.i)]
    /\ UNCHANGED <<heap, env, notLoop>>

\* xs.append(x): the list object that xs names now gets one more item
BodyAppend ==
    /\ floop.pc = "body"
    /\ floop.body[floop.at] = AppendLoopVar
    /\ heap' = [heap EXCEPT ![env.xs] = Append(heap[env.xs], env.x.i)]
    /\ floop' = AfterStatement(floop)
    /\ UNCHANGED <<env, notLoop>>

NextLoop ==
    \/ EvalIterable
    \/ NextElement
    \/ EndFor
    \/ BodyAssign
    \/ BodyPrint
    \/ BodyAppend

SpecLoop == InitLoop /\ [][NextLoop]_vars

\* a body that only binds names again and prints
OnlyRebinds(body) == \A i \in DOMAIN body : body[i] # AppendLoopVar
PrintsFirst(body) == body[1] = PrintLoopVar /\ (Len(body) = 1 \/ body[2] # PrintLoopVar)

\* C24: a for statement evaluates its iterable once, before the first
\* iteration, and runs the body once per element, in order, with the loop
\* variable bound to that element; binding the loop variable or the
\* variable of the iterable again in the body changes neither the number
\* nor the values of the iterations.
C24_ForEvaluatesOnce ==
    (floop.pc \notin {"none", "for"} /\ OnlyRebinds(floop.body)) =>
        /\ Len(floop.bound) <= Len(floop.entry)
        /\ floop.bound = SubSeq(floop.entry, 1, Len(floop.bound))
        /\ floop.pc = "done" => floop.bound = floop.entry
        /\ (floop.pc = "body" /\ floop.at = 1) => env.x = IntV(floop.entry[Len(floop.bound)])
        /\ (floop.pc \in {"next", "done"} /\ PrintsFirst(floop.body))
              => floop.printed = floop.bound

\* the loop ran over its two elements although each round bound xs to a
\* new list and x to 9
C24_ForEvaluatesOnceWitness ==
    /\ floop.pc = "done"
    /\ floop.body = <<RebindIterable, RebindLoopVar>>
    /\ floop.bound = <<1, 2>>
    /\ heap[env.xs] = <<7>>
    /\ env.x = IntV(9)

\* C30: a for loop is executed a finite number of times, the length of the
\* iterable evaluated at loop entry, so that every run ends.
C30_LoopEndsAfterEntryLength ==
    floop.pc \notin {"none", "for"} => Len(floop.bound) <= Len(floop.entry)

-----------------------------------------------------------------------------
(* A simple statement line (parser.py:459-484, 618-651).  The line is the  *)
(* sequence of its characters, as _parse_statement gets it: stripped, not  *)
(* empty, and none of for, if, elif, else.  The expression parser is left  *)
(* out: the model keeps what the line was taken for, and where it was      *)
(* split.                                                                  *)

MaxChars == 5
LineChars == {"x", "=", "!", "(", ")", "\"", "'", "\\"}
StatementTexts ==
    {t \in UNION {[1..n -> LineChars] : n \in 1..MaxChars} : Strip(t) = t}

InvalidTarget == "Invalid assignment target. Only simple variable names are allowed"
MissingRight == "Missing expression on right side of assignment"

\* the scan of _find_assignment from the character at pos (1-based), with
\* the depth, the open quote and the escape flag it has there; counting
\* says whether an opening bracket adds to the depth
RECURSIVE ScanAssignment(_, _, _, _, _, _)
ScanAssignment(text, pos, depth, in_quote, escaped, counting) ==
    IF pos > Len(text) THEN -1
    ELSE IF in_quote # ""
    THEN (IF escaped THEN ScanAssignment(text, pos + 1, depth, in_quote, FALSE, counting)
          ELSE IF text[pos] = "\\"
          THEN ScanAssignment(text, pos + 1, depth, in_quote, TRUE, counting)
          ELSE IF text[pos] = in_quote
          THEN ScanAssignment(text, pos + 1, depth, "", escaped, counting)
          ELSE ScanAssignment(text, pos + 1, depth, in_quote, escaped, counting))
    ELSE IF text[pos] \in {"'", "\""}
    THEN ScanAssignment(text, pos + 1, depth, text[pos], escaped, counting)
    ELSE IF text[pos] \in {"(", "["}
    THEN ScanAssignment(text, pos + 1, IF counting THEN depth + 1 ELSE depth, in_quote,
                        escaped, counting)
    ELSE IF text[pos] \in {")", "]"}
    THEN ScanAssignment(text, pos + 1, IF depth - 1 > 0 THEN depth - 1 ELSE 0, in_quote,
                        escaped, counting)
    ELSE IF text[pos] # "=" \/ depth # 0
    THEN ScanAssignment(text, pos + 1, depth, in_quote, escaped, counting)
    ELSE IF \/ (pos > 1 /\ text[pos - 1] \in {"=", "!", "<", ">"})
            \/ (pos < Len(text) /\ text[pos + 1] = "=")
    THEN ScanAssignment(text, pos + 1, depth, in_quote, escaped, counting)
    ELSE pos - 1

\* _find_assignment that takes an '=' inside brackets too
_find_assignment_in_brackets(text) == ScanAssignment(text, 1, 0, "", FALSE, FALSE)
\* Parser._find_assignment: the 0-based index of the '=', or -1
_find_assignment(text) == ScanAssignment(text, 1, 0, "", FALSE, TRUE)

\* _IDENTIFIER_RE.match(lhs)
IsIdentifier(lhs) ==
    /\ lhs # <<>>
    /\ lhs[1] \in {"x", "_"}
    /\ \A i \in DOMAIN lhs : lhs[i] \in {"x", "_", "1"}

TakenAs(kind, index, name, message) ==
    [kind |-> kind, index |-> index, name |-> name, message |-> message]

\* Parser._parse_statement from `assign_index = self._find_assignment(text)`
parse_simple_statement(text) ==
    The({IF assign_index = -1 THEN TakenAs("ExprStatement", -1, <<>>, "")
         ELSE The({IF ~IsIdentifier(lhs) THEN TakenAs("Assign", assign_index, lhs, InvalidTarget)
                   ELSE IF Strip(SubSeq(text, assign_index + 2, Len(text))) = <<>>
                   THEN TakenAs("Assign", assign_index, lhs, MissingRight)
                   ELSE TakenAs("Assign", assign_index, lhs, "") :
                     lhs \in {Strip(SubSeq(text, 1, assign_index))}}) :
           assign_index \in {_find_assignment(text)}})

notLine == <<worldVars, earlierVars, cacheVars, lookupVars, fileVars, loopVars>>

InitLine ==
    /\ fs = Documents
    /\ db = [d \in Dirs |-> NoDb]
    /\ NoEarlier
    /\ NoCache
    /\ lookup = NoLookup
    /\ NoObject
    /\ NoLoop
    /\ prog = NoProg
    /\ \E text \in StatementTexts : oneline = [text |-> text, done |-> FALSE]

\* self._parse_statement(text, line_no, indent)
ParseLine ==
    /\ ~oneline.done
    /\ oneline' = [text |-> oneline.text, done |-> TRUE, r |-> parse_simple_statement(oneline.text)]
    /\ UNCHANGED <<notLine, prog>>

NextLine == ParseLine

SpecLine == InitLine /\ [][NextLine]_vars

\* the character at j of a string literal that opens at q is escaped: an
\* odd number of backslashes stands right before it
RECURSIVE BackslashesBefore(_, _, _)
BackslashesBefore(text, j, q) ==
    IF j - 1 > q /\ text[j - 1] = "\\" THEN 1 + BackslashesBefore(text, j - 1, q) ELSE 0
ClosesString(text, q, j) ==
    j > q /\ text[j] = text[q] /\ BackslashesBefore(text, j, q) % 2 = 0
\* where the string literal that opens at q ends (past the line when it is
\* not closed)
StringEnd(text, q) ==
    IF \E j \in DOMAIN text : ClosesString(text, q, j)
    THEN CHOOSE j \in DOMAIN text :
            ClosesString(text, q, j) /\ \A k \in q + 1..j - 1 : ~ClosesString(text, q, k)
    ELSE Len(text) + 1
\* a quote at q opens a string literal: no earlier literal reaches it
RECURSIVE OpensString(_, _)
OpensString(text, q) ==
    /\ text[q] \in {"'", "\""}
    /\ \A p \in 1..q - 1 : OpensString(text, p) => StringEnd(text, p) < q
\* the character at i belongs to a string literal
InString(text, i) ==
    \/ OpensString(text, i)
    \/ \E q \in 1..i - 1 : OpensString(text, q) /\ i <= StringEnd(text, q)
\* the number of brackets that are open before the character at i
RECURSIVE BracketDepth(_, _)
BracketDepth(text, i) ==
    IF i = 1 THEN 0
    ELSE The({IF InString(text, i - 1) THEN d
              ELSE IF text[i - 1] \in {"(", "["} THEN d + 1
              ELSE IF text[i - 1] \in {")", "]"} /\ d > 0 THEN d - 1
              ELSE d :
                d \in {BracketDepth(text, i - 1)}})
\* the '=' at i is part of ==, !=, <= or >=
InComparison(text, i) ==
    \/ i > 1 /\ text[i - 1] \in {"=", "!", "<", ">"}
    \/ i < Len(text) /\ text[i + 1] = "="
\* the places of an '=' that makes the line an assignment
AssignmentSigns(text) ==
    {i \in DOMAIN text :
        /\ text[i] = "="
        /\ ~InString(text, i)
        /\ BracketDepth(text, i) = 0
        /\ ~InComparison(text, i)}
Least(S) == CHOOSE i \in S : \A j \in S : i <= j

\* C25: a statement line is parsed as an assignment exactly when it has an
\* '=' at bracket depth zero, outside any string literal, that is not part
\* of ==, !=, <= or >=; the line is split at the first such '=', and the
\* left side must be a simple identifier.
C25_AssignmentFinder ==
    oneline.done =>
        \A signs \in {AssignmentSigns(oneline.text)} :
            /\ oneline.r.kind = "Assign" <=> signs # {}
            /\ signs # {} =>
                  /\ oneline.r.index + 1 = Least(signs)
                  /\ oneline.r.name = SubSeq(oneline.text, 1, Least(signs) - 1)
                  /\ oneline.r.message = InvalidTarget <=> ~IsIdentifier(oneline.r.name)

\* x=(=) and x="=" : the line is split at its first '=', the one inside
\* the brackets or the string is left to the expression
C25_AssignmentFinderWitness ==
    /\ oneline.done
    /\ oneline.r.kind = "Assign"
    /\ oneline.r.message = ""
    /\ oneline.r.index = 1
    /\ oneline.text[1] = "x"
    /\ Len(oneline.text) = 5
    /\ oneline.text[3] \in {"(", "\""}
    /\ oneline.text[4] = "="
    /\ oneline.text[5] \in {")", "\""}

-----------------------------------------------------------------------------
(* Interpreter.run on a script of statements (interpreter.py:49-93,        *)
(* parser.py:378-616).  The parser gives the statements it found: an       *)
(* expression statement, an assignment with the lines it took, an if with  *)
(* its branches and its else block.  run() parses, and then executes the   *)
(* statements of the program one after the other.  The lines are those of  *)
(* the parser of lines above, with an if whose condition leaves a bracket  *)
(* open ("if [1," continued by "2]:"), elif and else.                      *)

MaxScript == 4
ScriptIndents == {<<>>, <<" ">>}
ScriptTexts == {"print(1)", "x = [1,", "if true:", "if [1,"}
ClosingTexts == {"2]", "2]:", ""}
ScriptLines ==
    [indent : ScriptIndents, body : ScriptTexts] \cup [indent : {<<>>}, body : ClosingTexts]
\* the scripts whose first line is not indented
Scripts ==
    {s \in UNION {[1..n -> ScriptLines] : n \in 1..MaxScript} : s[1].indent = <<>>}

\* what a parsing method returns: the index of the next line and the
\* statements made
Parsed(index, stmts) ==
    [ok |-> TRUE, index |-> index, stmts |-> stmts, message |-> "", line |-> 0, column |-> 0]
\* what it raises; stmts are the statements of the outermost block that were
\* complete by then
Fails(message, line, column) ==
    [ok |-> FALSE, index |-> 0, stmts |-> <<>>, message |-> message, line |-> line,
     column |-> column]
FailsAs(e) == Fails(e.message, e.line, e.column)

ExprAt(line) == [kind |-> "ExprStatement", line |-> line, last |-> line]
AssignAt(line, last_line) == [kind |-> "Assign", line |-> line, last |-> last_line]
Branch(line, body) == [line |-> line, condition |-> "true", body |-> body]
IfAt(line, branches) ==
    [kind |-> "IfStatement", line |-> line, last |-> line, branches |-> branches,
     else_line |-> 0, else_body |-> <<>>]

\* text.startswith("if "), _IF_RE.match(text), stripped.startswith("elif ")
StartsWithIf(text) == text \in {"if true:", "if [1,"}
MatchesIf(text) == text = "if true:"
StartsWithElif(text) == text = "elif true:"

\* the error of Parser._parse_expression on an open list and its lines
expression_error(parts) ==
    IF Head(SelectSeq(parts, IsText)) = "2]:" THEN "Unexpected token ':'"
    ELSE "Expected ']' to close list"

\* an elif or else line that is indented at least as the if belongs to it
attaches_from(scan_indent, indent) == scan_indent >= indent
\* `if scan_indent != indent: break` of Parser._parse_if_statement
attaches_at(scan_indent, indent) == scan_indent = indent

RECURSIVE parse_block(_, _, _, _)
RECURSIVE parse_statement(_, _, _)
RECURSIVE parse_if_statement(_, _, _)
RECURSIVE parse_branches(_, _, _, _)
RECURSIVE parse_child_block(_, _, _, _)

\* Parser._parse_block from the line at index, with the statements so far
parse_block(lines, index, expected_indent, stmts) ==
    IF index > Len(lines) THEN Parsed(index, stmts)
    ELSE IF _is_blank_or_comment(lines[index])
    THEN parse_block(lines, index + 1, expected_indent, stmts)
    ELSE IF ~_leading_indent(lines[index], index).ok
    THEN [FailsAs(_leading_indent(lines[index], index)) EXCEPT !.stmts = stmts]
    ELSE IF Len(lines[index].indent) < expected_indent THEN Parsed(index, stmts)
    ELSE IF Len(lines[index].indent) > expected_indent
    THEN [Fails("Unexpected indentation", index, Len(lines[index].indent) + 1)
             EXCEPT !.stmts = stmts]
    ELSE The({IF ~r.ok THEN [r EXCEPT !.stmts = stmts]
              ELSE parse_block(lines, r.index, expected_indent, stmts \o r.stmts) :
                r \in {parse_statement(lines, index, Len(lines[index].indent))}})

\* Parser._parse_statement: the next index and the one statement.  A line
\* that leaves a bracket open is the assignment of an open list here, the
\* line of a closing bracket alone is an expression that does not parse.
parse_statement(lines, line_no, indent) ==
    IF StartsWithIf(lines[line_no].body) THEN parse_if_statement(lines, line_no, indent)
    ELSE IF StartsWithElif(lines[line_no].body)
    THEN Fails("'elif' without matching 'if'", line_no, indent + 1)
    ELSE IF lines[line_no].body = "else:"
    THEN Fails("'else' without matching 'if'", line_no, indent + 1)
    ELSE IF _delimiter_balance(lines[line_no].body) > 0
    THEN The({IF ~rhs.ok
              THEN Fails("Unterminated expression. Missing closing bracket/parenthesis",
                          line_no, 1)
              ELSE IF ~ListParses(rhs.parts)
              THEN Fails(expression_error(rhs.parts), line_no, 0)
              ELSE Parsed(rhs.next, <<AssignAt(line_no, rhs.next - 1)>>) :
                rhs \in {_collect_continued_expression(lines, line_no, line_no + 1, 1, <<>>)}})
    ELSE IF _delimiter_balance(lines[line_no].body) < 0
    THEN Fails("Unexpected token ']'", line_no, 0)
    ELSE Parsed(line_no + 1, <<ExprAt(line_no)>>)

\* Parser._parse_if_statement up to the body of the if
parse_if_statement(lines, line_no, indent) ==
    IF ~MatchesIf(lines[line_no].body)
    THEN Fails("Invalid if syntax. Use: if condition:", line_no, indent + 1)
    ELSE The({IF ~body.ok THEN body
              ELSE parse_branches(lines, body.index, indent,
                                  IfAt(line_no, <<Branch(line_no, body.stmts)>>)) :
                body \in {parse_child_block(lines, line_no + 1, indent, line_no)}})

\* the loop of Parser._parse_if_statement over the elif and else lines
parse_branches(lines, index, indent, stmt) ==
    The({IF scan > Len(lines) THEN Parsed(scan, <<stmt>>)
         ELSE IF ~_leading_indent(lines[scan], scan).ok
         THEN FailsAs(_leading_indent(lines[scan], scan))
         ELSE IF ~attaches_at(Len(lines[scan].indent), indent) THEN Parsed(scan, <<stmt>>)
         ELSE IF StartsWithElif(lines[scan].body)
         THEN (IF stmt.else_line # 0
               THEN Fails("'elif' cannot appear after 'else'", scan, indent + 1)
               ELSE The({IF ~elif_body.ok THEN elif_body
                         ELSE parse_branches(
                                  lines, elif_body.index, indent,
                                  [stmt EXCEPT !.branches = Append(@, Branch(scan, elif_body.stmts))]) :
                           elif_body \in {parse_child_block(lines, scan + 1, indent, scan)}}))
         ELSE IF lines[scan].body = "else:"
         THEN (IF stmt.else_line # 0
               THEN Fails("Only one else block is allowed", scan, indent + 1)
               ELSE The({IF ~else_body.ok THEN else_body
                         ELSE parse_branches(
                                  lines, else_body.index, indent,
                                  [stmt EXCEPT !.else_line = scan, !.else_body = else_body.stmts]) :
                           else_body \in {parse_child_block(lines, scan + 1, indent, scan)}}))
         ELSE Parsed(scan, <<stmt>>) :
           scan \in {SkipBlank(lines, index)}})

\* Parser._parse_child_block
parse_child_block(lines, index, parent_indent, parent_line) ==
    The({IF scan > Len(lines)
         THEN Fails("Expected an indented block", parent_line, parent_indent + 1)
         ELSE IF ~_leading_indent(lines[scan], scan).ok
         THEN FailsAs(_leading_indent(lines[scan], scan))
         ELSE IF Len(lines[scan].indent) <= parent_indent
         THEN Fails("Expected an indented block", scan, Len(lines[scan].indent) + 1)
         ELSE parse_block(lines, scan, Len(lines[scan].indent), <<>>) :
           scan \in {SkipBlank(lines, index)}})

\* a run that executes what was parsed before the error
parse_what_parses(lines) == [parse_block(lines, 1, 0, <<>>) EXCEPT !.ok = TRUE]
\* Parser(source).parse()
parse_program(lines) == parse_block(lines, 1, 0, <<>>)

\* what a statement does to the run: [executed, printed, variables]
RECURSIVE execute_block(_, _)
RECURSIVE execute_statement(_, _)
RECURSIVE execute_branches(_, _, _)
\* Interpreter._execute_program, and the body of a branch
execute_block(stmts, st) ==
    IF stmts = <<>> THEN st
    ELSE execute_block(Tail(stmts), execute_statement(Head(stmts), st))
\* Interpreter._execute_statement
execute_statement(stmt, st) ==
    CASE stmt.kind = "Assign" ->
            [st EXCEPT !.executed = @ + 1, !.variables = @ \cup {"x"}]
      [] stmt.kind = "ExprStatement" ->
            [st EXCEPT !.executed = @ + 1, !.printed = Append(@, "1")]
      [] stmt.kind = "IfStatement" ->
            execute_branches(stmt.branches, stmt.else_body, [st EXCEPT !.executed = @ + 1])
\* the first branch whose condition is true, or the else block
execute_branches(branches, else_body, st) ==
    IF branches = <<>> THEN execute_block(else_body, st)
    ELSE IF Head(branches).condition = "true" THEN execute_block(Head(branches).body, st)
    ELSE execute_branches(Tail(branches), else_body, st)

NotParsed == [ok |-> FALSE, stmts |-> <<>>]
AScript(script) ==
    [script |-> script, pc |-> "start", r |-> NotParsed, at |-> 1, executed |-> 0,
     printed |-> <<>>, variables |-> {}]

notScript == <<worldVars, earlierVars, cacheVars, lookupVars, fileVars, loopVars, oneline>>

InitIdle ==
    /\ fs = Documents
    /\ db = [d \in Dirs |-> NoDb]
    /\ NoEarlier
    /\ NoCache
    /\ lookup = NoLookup
    /\ NoObject
    /\ NoLoop
    /\ oneline = NoLine

InitScript ==
    /\ InitIdle
    /\ \E script \in Scripts : prog = AScript(script)

\* program = Parser(self.source).parse()
ParseScript ==
    /\ prog.pc = "start"
    /\ prog' = The({[prog EXCEPT !.pc = IF r.ok THEN "run" ELSE "raised", !.r = r] :
                      r \in {parse_program(prog.script)}})
    /\ UNCHANGED notScript

\* one round of `for statement in program.statements`
ExecuteStatement ==
    /\ prog.pc = "run"
    /\ prog.at <= Len(prog.r.stmts)
    /\ prog' = The({[prog EXCEPT !.at = @ + 1, !.executed = st.executed,
                                 !.printed = st.printed, !.variables = st.variables] :
                      st \in {execute_statement(
                                  prog.r.stmts[prog.at],
                                  [executed |-> prog.executed, printed |-> prog.printed,
                                   variables |-> prog.variables])}})
    /\ UNCHANGED notScript

\* return self.variables
ReturnVariables ==
    /\ prog.pc = "run"
    /\ prog.at > Len(prog.r.stmts)
    /\ prog' = [prog EXCEPT !.pc = "done"]
    /\ UNCHANGED notScript

NextScript == ParseScript \/ ExecuteStatement \/ ReturnVariables

SpecScript == InitScript /\ [][NextScript]_vars

\* the delimiter balance of the lines k..j of a script
RECURSIVE SumBalance(_, _, _)
SumBalance(script, k, j) ==
    IF j < k THEN 0
    ELSE SumBalance(script, k, j - 1) + _delimiter_balance(stripped_text(script[j]))
\* the lines after k at which the balance of the lines from k is back to zero
ClosingLines(script, k) == {j \in k + 1..Len(script) : SumBalance(script, k, j) = 0}
\* the texts that follow line k up to the first of those lines
Continuation(script, k) ==
    SelectSeq([i \in 1..Least(ClosingLines(script, k)) - k |-> script[k + i].body], IsText)
\* line k and the lines joined to it are one well-formed statement: the
\* assignment of the list [1, 2], or the header if [1, 2]:
JoinedStatement(script, k) ==
    /\ ClosingLines(script, k) # {}
    /\ \/ script[k].body = "x = [1," /\ Continuation(script, k) = <<"2]">>
       \/ script[k].body = "if [1," /\ Continuation(script, k) = <<"2]:">>

\* the lines that the statements of a block were made of, in the order of
\* the statements
RECURSIVE LinesOf(_)
RECURSIVE LinesOfBranches(_)
LinesOfStatement(s) ==
    IF s.kind = "IfStatement"
    THEN LinesOfBranches(s.branches)
            \o (IF s.else_line = 0 THEN <<>> ELSE <<s.else_line>> \o LinesOf(s.else_body))
    ELSE [i \in 1..s.last - s.line + 1 |-> s.line + i - 1]
LinesOf(stmts) ==
    IF stmts = <<>> THEN <<>> ELSE LinesOfStatement(Head(stmts)) \o LinesOf(Tail(stmts))
LinesOfBranches(branches) ==
    IF branches = <<>> THEN <<>>
    ELSE <<Head(branches).line>> \o LinesOf(Head(branches).body)
            \o LinesOfBranches(Tail(branches))
\* the first and the last line of the statements that took more than one
RECURSIVE JoinedIn(_)
JoinedIn(stmts) ==
    IF stmts = <<>> THEN {}
    ELSE JoinedIn(Tail(stmts)) \cup
         (IF Head(stmts).kind = "IfStatement"
          THEN JoinedIn(Head(stmts).else_body) \cup
               UNION {JoinedIn(Head(stmts).branches[b].body) : b \in DOMAIN Head(stmts).branches}
          ELSE IF Head(stmts).last > Head(stmts).line
          THEN {<<Head(stmts).line, Head(stmts).last>>}
          ELSE {})

\* in a program that parsed, a statement that leaves a bracket open takes
\* the lines up to the first one that brings the balance back to zero, the
\* lines of the statements are in increasing order (none is parsed twice),
\* and they are all the lines with text (none is skipped)
JoinedExactly ==
    (prog.pc # "start" /\ prog.r.ok) =>
        /\ \A j \in JoinedIn(prog.r.stmts) :
              /\ ClosingLines(prog.script, j[1]) # {}
              /\ j[2] = Least(ClosingLines(prog.script, j[1]))
        /\ \A lines \in {LinesOf(prog.r.stmts)} :
              /\ \A a, b \in DOMAIN lines : a < b => lines[a] < lines[b]
              /\ \A k \in DOMAIN prog.script :
                    prog.script[k].body # "" => k \in Range(lines)
\* a statement that is left open to the end of the file is a syntax error:
\* in a program that parsed, the first line of a statement that leaves a
\* bracket open has a line that closes it
OpenAtEndOfFile ==
    (prog.pc # "start" /\ prog.r.ok) =>
        \A k \in Range(LinesOf(prog.r.stmts)) :
            (/\ \A j \in JoinedIn(prog.r.stmts) : ~(j[1] < k /\ k <= j[2])
             /\ _delimiter_balance(prog.script[k].body) > 0)
                => ClosingLines(prog.script, k) # {}
\* a statement whose lines join to a well-formed statement is not the one
\* that the parser rejects
JoinedAccepted(texts) ==
    (prog.pc = "raised" /\ prog.r.message \notin {"Unexpected indentation",
                                                  "Expected an indented block"}) =>
        ~(prog.script[prog.r.line].body \in texts /\ JoinedStatement(prog.script, prog.r.line))

\* the continuation of the lines of an assignment alone
ContinuedAssignments == JoinedExactly /\ OpenAtEndOfFile /\ JoinedAccepted({"x = [1,"})

\* C26: when the expression of a statement leaves a parenthesis or a square
\* bracket open, the parser joins the following lines up to and including
\* the one where the delimiter balance is back to zero, parses them as one
\* expression and goes on with the line after them, so that no line is
\* parsed twice or skipped; at the end of the file with the balance still
\* positive the result is a syntax error.
C26_ContinuationLines ==
    JoinedExactly /\ OpenAtEndOfFile /\ JoinedAccepted({"x = [1,", "if [1,"})

\* C28: a script is parsed completely before any of it runs: when a line of
\* it has a syntax error, wherever it is, no statement is executed, nothing
\* is printed and no variable is bound.
C28_ParsedBeforeRun ==
    /\ ~parse_block(prog.script, 1, 0, <<>>).ok =>
          /\ prog.pc \in {"start", "raised"}
          /\ prog.executed = 0
          /\ prog.printed = <<>>
          /\ prog.variables = {}
    /\ prog.pc \in {"run", "done"} =>
          /\ prog.r.ok
          /\ prog.r.index > Len(prog.script)

\* print(1) and x = [1, 2] are complete statements, and the line after them
\* does not parse: nothing was printed and x is not bound
C28_ParsedBeforeRunWitness ==
    /\ prog.pc = "raised"
    /\ prog.r.line > 2
    /\ Len(prog.r.stmts) = 2
    /\ prog.r.stmts[1].kind = "ExprStatement"
    /\ prog.r.stmts[2].kind = "Assign"
    /\ prog.printed = <<>>
    /\ prog.variables = {}

-----------------------------------------------------------------------------
(* Scripts of if, elif and else lines at up to three indents, parsed and   *)
(* run as above.                                                           *)

MaxBranchLines == 5
BranchIndents == {<<>>, <<" ">>, <<" ", " ">>}
HeaderTexts == {"if true:", "elif true:", "else:"}
\* a statement at any of the indents, an if, elif or else where a block can
\* follow it
BranchLines ==
    [indent : BranchIndents, body : {"print(1)"}]
        \cup [indent : {<<>>, <<" ">>}, body : HeaderTexts]
\* the scripts that begin with an if that is not indented
BranchScripts ==
    {<<[indent |-> <<>>, body |-> "if true:"]>> \o rest :
        rest \in UNION {[1..n -> BranchLines] : n \in 0..MaxBranchLines - 1}}

InitBranches ==
    /\ InitIdle
    /\ \E script \in BranchScripts : prog = AScript(script)

SpecBranches == InitBranches /\ [][NextScript]_vars

IsBranchLine(l) == l.body \in {"elif true:", "else:"}
\* the last line before k that is not indented more than line k (0: none)
Before(script, k) ==
    IF \E j \in 1..k - 1 : Len(script[j].indent) <= Len(script[k].indent)
    THEN CHOOSE j \in 1..k - 1 :
            /\ Len(script[j].indent) <= Len(script[k].indent)
            /\ \A i \in j + 1..k - 1 : Len(script[i].indent) > Len(script[k].indent)
    ELSE 0
\* the elif or else at line k has an if before it at its indent, and no else
\* of that if before it
RECURSIVE HasItsIf(_, _)
HasItsIf(script, k) ==
    /\ Before(script, k) # 0
    /\ Len(script[Before(script, k)].indent) = Len(script[k].indent)
    /\ \/ script[Before(script, k)].body = "if true:"
       \/ /\ script[Before(script, k)].body = "elif true:"
          /\ HasItsIf(script, Before(script, k))
\* the if of the elif or else at line k
RECURSIVE ItsIf(_, _)
ItsIf(script, k) ==
    IF script[Before(script, k)].body = "if true:" THEN Before(script, k)
    ELSE ItsIf(script, Before(script, k))
\* the elif and else lines that the ifs of a block have, each with the line
\* of its if
RECURSIVE AttachedIn(_)
AttachedOf(s) ==
    IF s.kind # "IfStatement" THEN {}
    ELSE {<<s.line, s.branches[b].line>> : b \in 2..Len(s.branches)}
            \cup (IF s.else_line = 0 THEN {} ELSE {<<s.line, s.else_line>>})
            \cup AttachedIn(s.else_body)
            \cup UNION {AttachedIn(s.branches[b].body) : b \in DOMAIN s.branches}
AttachedIn(stmts) ==
    IF stmts = <<>> THEN {} ELSE AttachedOf(Head(stmts)) \cup AttachedIn(Tail(stmts))

\* C27: an elif or else line is attached to an if only when it is at
\* exactly the indent of the if; an elif that follows an else of the same
\* if, a second else of the same if, and an elif or else with no if before
\* it at its indent are each rejected with a syntax error.
C27_BranchesAtIfIndent ==
    prog.pc # "start" =>
        /\ prog.r.ok =>
              /\ \A a \in AttachedIn(prog.r.stmts) :
                    /\ prog.script[a[2]].indent = prog.script[a[1]].indent
                    /\ a[1] = ItsIf(prog.script, a[2])
              /\ \A k \in DOMAIN prog.script :
                    IsBranchLine(prog.script[k]) =>
                        \E a \in AttachedIn(prog.r.stmts) : a[2] = k
        /\ \A k \in DOMAIN prog.script :
              (IsBranchLine(prog.script[k]) /\ ~HasItsIf(prog.script, k)) =>
                  /\ prog.pc = "raised"
                  /\ prog.r.line <= k

\* an if in the body of an if, and an else at the indent of the outer if:
\* the else is the else of the outer if
C27_BranchesAtIfIndentWitness ==
    /\ prog.pc = "done"
    /\ Len(prog.script) = 5
    /\ prog.r.stmts[1].else_line = 4
    /\ prog.r.stmts[1].branches[1].body[1].kind = "IfStatement"
    /\ prog.r.stmts[1].branches[1].body[1].else_line = 0
    /\ prog.script[2].indent # prog.script[4].indent

-----------------------------------------------------------------------------
(* The files of a Directory when the sandbox has a symbolic link to a      *)
(* document outside it (runtime.py:489-500, 626-678, semantic.py:156-210). *)
(* The host makes box/p.txt, a link to /etc/passwd; rglob("*") and         *)
(* is_file() follow it, and so does the walk of prepare_semantic_database. *)

EnumCalls ==
    {[op |-> "iter"]}
    \cup {[op |-> "files", recursive |-> r] : r \in {NoneV, BoolV(TRUE), BoolV(FALSE)}}
    \cup {[op |-> "search", pattern |-> pattern, scope |-> scope, in_content |-> FALSE] :
            pattern \in Patterns, scope \in {"name", "content", "both"}}

\* list(d): DSLDirectory.__iter__
Directory_iter(d, o) ==
    The({Ok(ListV([i \in DOMAIN paths |-> FileV(paths[i])]), o) :
           paths \in {_iter_file_paths(d.e, d.i = 1)}})

EnumCallResult(d, c) ==
    CASE c.op = "iter" -> Directory_iter(d, <<>>)
      [] c.op = "files" -> Directory_files(d, c.recursive, <<>>)
      [] OTHER -> Directory_search_scoped(d, c.pattern, c.scope, c.in_content, <<>>)

InitEnumerate == InitDirectory

\* the host makes the symbolic link box/p.txt to /etc/passwd
MakeLink ==
    /\ dcall = NoDirCall
    /\ ~IsFile(FileL)
    /\ IsFile(FileP)
    /\ fs' = [fs EXCEPT ![FileL] = fs[FileP]]
    /\ UNCHANGED <<db, dcall, locked, notDirectory>>

\* Directory(D, recursive=r), then its iteration, files() or search()
EnumerateCall ==
    /\ dcall = NoDirCall
    /\ \E D \in Listed, r \in BOOLEAN, c \in EnumCalls :
          \E d \in {DSLDirectory(D, r, <<>>)} :
              /\ d.ok
              /\ dcall' = [op |-> c.op, dir |-> d.val, c |-> c, r |-> EnumCallResult(d.val, c)]
    /\ UNCHANGED <<fs, db, locked, notDirectory>>

NextEnumerate ==
    \/ PrepareIndex
    \/ MakeLink
    \/ RemoveDocument
    \/ WriteDocument
    \/ EnumerateCall
    \/ TakeResult

SpecEnumerate == InitEnumerate /\ [][NextEnumerate]_vars

\* the paths of the Files that the call has produced
Produced ==
    IF dcall.op \in {"iter", "files", "search"} /\ dcall.r.ok
    THEN Range(PathsOfFiles(dcall.r.val.e))
    ELSE {}

\* the path of every File is the path of the Directory and more components
FilesUnderDirectoryPath ==
    \A p \in Produced : IsPrefix(dcall.dir.e, p) /\ p # dcall.dir.e

\* an index of Box that was prepared with the link in place serves it too
LinkServedFromIndex ==
    /\ dcall.op = "iter"
    /\ Covered(dcall.dir.e)
    /\ FileL \in IndexedFiles(dcall.dir.e)
    /\ FileL \in Produced

\* C29: every File produced by iterating a Directory, by files() or by
\* search() has a path under that Directory's path, and is therefore
\* inside the sandbox root (its resolved path lies inside the root), when
\* the enumeration walks the filesystem and when it is served from a
\* prepared index.
C29_FilesInsideSandbox ==
    \A p \in Produced :
        /\ IsPrefix(dcall.dir.e, p)
        /\ IsRelativeTo(Resolve(p), sandbox_root)

====
